---- MODULE Spec2Model ----
(***************************************************************************)
(* Model of the metric extraction engine of src/da/rms/git/git.py          *)
(* (class BenchRepo: get_metrics and the helpers it calls, and the part of *)
(* main that carries the watermark from one run to the next).              *)
(*                                                                         *)
(* Python strings are modelled as sequences of one-character strings, so   *)
(* that parsing, character screening and formatting are computed and not   *)
(* assumed.  A Python value is a record [t, n, s]: t is the Python type    *)
(* ("str", "int", "float", "nan" for the float NaN, "bool", "none"), n the *)
(* number it holds and s the text it holds.                                *)
(***************************************************************************)
EXTENDS Integers, Sequences, FiniteSets, TLC

(***************************************************************************)
(* Bounds of the model                                                     *)
(***************************************************************************)
MaxFiles == 2      \* source files of one unit
MaxRows  == 3      \* data rows over all the source files of one unit
MaxTs    == 2      \* largest watermark stored before the first run
MaxRuns  == 2      \* runs of main over the same files

(***************************************************************************)
(* Strings                                                                 *)
(***************************************************************************)
DigitChars == {"0", "1", "2", "3", "4", "5", "6", "7", "8", "9"}

DigitVal(c) ==
  CASE c = "0" -> 0 [] c = "1" -> 1 [] c = "2" -> 2 [] c = "3" -> 3
    [] c = "4" -> 4 [] c = "5" -> 5 [] c = "6" -> 6 [] c = "7" -> 7
    [] c = "8" -> 8 [] c = "9" -> 9

DigitChar(d) ==
  CASE d = 0 -> "0" [] d = 1 -> "1" [] d = 2 -> "2" [] d = 3 -> "3"
    [] d = 4 -> "4" [] d = 5 -> "5" [] d = 6 -> "6" [] d = 7 -> "7"
    [] d = 8 -> "8" [] d = 9 -> "9"

\* str.isdigit()
isdigit(s) == Len(s) > 0 /\ \A i \in 1..Len(s) : s[i] \in DigitChars

RECURSIVE StrToNat(_)
StrToNat(s) ==
  IF Len(s) = 0 THEN 0
  ELSE 10 * StrToNat(SubSeq(s, 1, Len(s) - 1)) + DigitVal(s[Len(s)])

RECURSIVE NatToStr(_)
NatToStr(n) ==
  IF n < 10 THEN <<DigitChar(n)>>
  ELSE NatToStr(n \div 10) \o <<DigitChar(n % 10)>>

IntToStr(n) == IF n < 0 THEN <<"-">> \o NatToStr(0 - n) ELSE NatToStr(n)

LowerChar(c) ==
  CASE c = "N" -> "n" [] c = "A" -> "a" [] c = "O" -> "o" [] c = "E" -> "e"
    [] c = "U" -> "u" [] c = "L" -> "l" [] c = "F" -> "f" [] c = "S" -> "s"
    [] c = "T" -> "t" [] c = "R" -> "r"
    [] OTHER -> c

\* str.lower()
lower(s) == [i \in 1..Len(s) |-> LowerChar(s[i])]

\* str.strip()
RECURSIVE lstrip(_)
lstrip(s) == IF Len(s) > 0 /\ s[1] = " " THEN lstrip(Tail(s)) ELSE s
RECURSIVE rstrip(_)
rstrip(s) ==
  IF Len(s) > 0 /\ s[Len(s)] = " " THEN rstrip(SubSeq(s, 1, Len(s) - 1)) ELSE s
strip(s) == rstrip(lstrip(s))

\* str.endswith(suffix)
endswith(s, suf) ==
  Len(s) >= Len(suf) /\ SubSeq(s, Len(s) - Len(suf) + 1, Len(s)) = suf

\* value.replace('.', '', 1)
RECURSIVE RemoveFirstDot(_)
RemoveFirstDot(s) ==
  IF Len(s) = 0 THEN s
  ELSE IF s[1] = "." THEN Tail(s)
  ELSE <<s[1]>> \o RemoveFirstDot(Tail(s))

\* '_'.join(parts)
RECURSIVE join(_, _)
join(sep, parts) ==
  IF Len(parts) = 0 THEN <<>>
  ELSE IF Len(parts) = 1 THEN parts[1]
  ELSE parts[1] \o sep \o join(sep, Tail(parts))

\* the texts that the code names
sNone  == <<"N", "o", "n", "e">>
snone  == <<"n", "o", "n", "e">>
snull  == <<"n", "u", "l", "l">>
snan   == <<"n", "a", "n">>
sTrue  == <<"T", "r", "u", "e">>
sFalse == <<"F", "a", "l", "s", "e">>
sfalse == <<"f", "a", "l", "s", "e">>
sCsv   == <<".", "c", "s", "v">>
sJson  == <<".", "j", "s", "o", "n">>

(***************************************************************************)
(* Python values                                                           *)
(***************************************************************************)
VStr(s)   == [t |-> "str",   n |-> 0, s |-> s]
VInt(n)   == [t |-> "int",   n |-> n, s |-> <<>>]
VFloat(n) == [t |-> "float", n |-> n, s |-> <<>>]
VNaN      == [t |-> "nan",   n |-> 0, s |-> <<>>]
VBool(b)  == [t |-> "bool",  n |-> IF b THEN 1 ELSE 0, s |-> <<>>]
VNone     == [t |-> "none",  n |-> 0, s |-> <<>>]

IsNumber(v) == v.t \in {"int", "float", "bool"}

\* str(value)
pystr(v) ==
  CASE v.t = "str"   -> v.s
    [] v.t = "int"   -> IntToStr(v.n)
    [] v.t = "float" -> IntToStr(v.n) \o <<".", "0">>
    [] v.t = "nan"   -> snan
    [] v.t = "bool"  -> IF v.n = 1 THEN sTrue ELSE sFalse
    [] v.t = "none"  -> sNone

\* bool(value)
truthy(v) ==
  CASE v.t = "str"   -> Len(v.s) > 0
    [] v.t = "none"  -> FALSE
    [] v.t = "nan"   -> TRUE
    [] OTHER         -> v.n # 0

\* self.default, keyed by the type of the metric
\* a variant of the defaults with 0 for int
default_int_zero(mtype) ==
  CASE mtype = "str"   -> VStr(<<>>)
    [] mtype = "int"   -> VInt(0)
    [] mtype = "bool"  -> VNone
    [] mtype = "float" -> VInt(0)
    [] mtype = "date"  -> VStr(<<"-">>)
    [] mtype = "ts"    -> VInt(0 - 1)
    [] OTHER           -> VStr(<<>>)
default(mtype) ==
  CASE mtype = "str"   -> VStr(<<>>)
    [] mtype = "int"   -> VInt(0 - 1)
    [] mtype = "bool"  -> VNone
    [] mtype = "float" -> VInt(0)
    [] mtype = "date"  -> VStr(<<"-">>)
    [] mtype = "ts"    -> VInt(0 - 1)

KnownTypes == {"str", "int", "bool", "float", "date", "ts"}

\* self.default.get(metric_type, '')
default_get(mtype) == IF mtype \in KnownTypes THEN default(mtype) ELSE VStr(<<>>)

(***************************************************************************)
(* Results of an operation that may raise: exc is the name of the Python   *)
(* exception ("" when none was raised), v the value returned.              *)
(***************************************************************************)
Ret(v)     == [exc |-> "", v |-> v]
Raise(e)   == [exc |-> e, v |-> VNone]

\* sign? digits, as int() and float() accept it after stripping blanks
Unsigned(s) == IF Len(s) > 0 /\ s[1] \in {"+", "-"} THEN Tail(s) ELSE s
Negative(s) == Len(s) > 0 /\ s[1] = "-"
Signed(s, n) == IF Negative(s) THEN 0 - n ELSE n

\* digits '.' zeros: the decimal literals of the model have no fraction
DotPos(s) == IF \E i \in 1..Len(s) : s[i] = "."
             THEN CHOOSE i \in 1..Len(s) : s[i] = "." /\ \A j \in 1..(i - 1) : s[j] # "."
             ELSE Len(s) + 1
IntPartAt(s, dot) == SubSeq(s, 1, dot - 1)
IsDecimalAt(s, dot) ==
  /\ isdigit(IntPartAt(s, dot))
  /\ \A i \in (dot + 1)..Len(s) : s[i] = "0"
IsDecimal(s) == IsDecimalAt(s, DotPos(s))
IntPart(s)   == IntPartAt(s, DotPos(s))

\* int(text) and float(text), the text already stripped of blanks
int_of_text(s) ==
  IF isdigit(Unsigned(s)) THEN Ret(VInt(Signed(s, StrToNat(Unsigned(s)))))
  ELSE Raise("ValueError")
float_of_text(s) ==
  IF IsDecimal(Unsigned(s)) THEN Ret(VFloat(Signed(s, StrToNat(IntPart(Unsigned(s))))))
  ELSE IF lower(Unsigned(s)) = snan THEN Ret(VNaN)
  ELSE Raise("ValueError")

\* int(value)
pyint(v) ==
  CASE v.t = "str"  -> int_of_text(strip(v.s))
    [] v.t = "none" -> Raise("TypeError")
    [] v.t = "nan"  -> Raise("ValueError")
    [] OTHER        -> Ret(VInt(v.n))

\* float(value)
pyfloat(v) ==
  CASE v.t = "str"  -> float_of_text(strip(v.s))
    [] v.t = "none" -> Raise("TypeError")
    [] v.t = "nan"  -> Ret(VNaN)
    [] OTHER        -> Ret(VFloat(v.n))

\* value * factor
times(v, f) == IF v.t = "nan" THEN v ELSE [v EXCEPT !.n = @ * f]

(***************************************************************************)
(* dateutil.parser.parse is a library: the model knows the date texts of   *)
(* DateTable (epoch seconds and the normalised text) and every other text  *)
(* is a ParserError, every value that is not a text a TypeError.           *)
(***************************************************************************)
sDay2 == <<"1", "9", "7", "0", "-", "0", "1", "-", "0", "1", " ", "0", "0", ":", "0", "0", ":", "0", "2">>
sDay2T == <<"1", "9", "7", "0", "0", "1", "0", "1", "T", "0", "0", "0", "0", "0", "2">>
DateTable ==
  (sDay2 :> [epoch |-> 2, norm |-> sDay2]) @@ (sDay2T :> [epoch |-> 2, norm |-> sDay2])

dateutil_parse(v) ==
  IF v.t # "str" THEN Raise("TypeError")
  ELSE IF v.s \in DOMAIN DateTable THEN [exc |-> "", v |-> DateTable[v.s]]
  ELSE Raise("ParserError")

(***************************************************************************)
(* A regular expression with one group is the map from the texts it        *)
(* matches to the text of its first group; no 'regex' is the empty map.    *)
(***************************************************************************)
NoRegex == <<>>
re_search(regex, s) == s \in DOMAIN regex

\* convert_data: the epoch seconds of a parsed date, else the value as it was
epoch_or_same(value, d) == IF d.exc = "" THEN Ret(VFloat(d.v.epoch)) ELSE Ret(value)

\* convert_data: int(value)*factor if factor else int(value)
with_factor(r, factor) ==
  IF r.exc # "" THEN r ELSE IF factor # 0 THEN Ret(times(r.v, factor)) ELSE r

\* BenchRepo.convert_data; factor is the number or the regex the caller passes
convert_data(value, vtype, factor) ==
  CASE vtype = "ts" ->
         IF value.t = "str" /\ isdigit(RemoveFirstDot(value.s)) THEN pyfloat(value)
         ELSE epoch_or_same(value, dateutil_parse(value))
    [] vtype = "date"  -> epoch_or_same(value, dateutil_parse(value))
    [] vtype = "int"   -> with_factor(pyint(value), factor)
    [] vtype = "float" -> with_factor(pyfloat(value), factor)
    [] vtype = "bool"  -> Ret(VBool(truthy(value)))
    [] vtype = "str" ->
         IF DOMAIN factor # {} THEN
           IF value.t # "str" THEN Raise("TypeError")
           ELSE IF re_search(factor, value.s) THEN Ret(VStr(factor[value.s]))
           ELSE Ret(VStr(pystr(value)))
         ELSE Ret(VStr(pystr(value)))
    [] OTHER -> Ret(value)

(***************************************************************************)
(* Configuration of a unit.  A metric definition is a record; a key the    *)
(* YAML does not give is the empty value of its field:                     *)
(*   from    the tokens of the 'from' text: <<"content">>, <<"static">>,   *)
(*           <<"value">>, <<"filename">>, <<"metadata">>, or a formula as  *)
(*           operands and operators, <<"value", "/", "bw">>; <<>> if none  *)
(*   type    the declared type, "" if none                                 *)
(*   header  the header in the file, "" if none                            *)
(*   factor  the number to multiply with, 0 if none                        *)
(*   regex   the regular expression, NoRegex if none                       *)
(*   key     the metadata key, "" if none                                  *)
(*   value   the static value, given if hasvalue                           *)
(*   exclude, include   lists of patterns, given if hasexclude, hasinclude;*)
(*           a pattern is the set of texts in which it finds a match       *)
(***************************************************************************)
MetricDef(from, type) ==
  [from |-> from, type |-> type, header |-> "", factor |-> 0, regex |-> NoRegex,
   key |-> "", hasvalue |-> FALSE, value |-> VNone,
   hasexclude |-> FALSE, exclude |-> <<>>, hasinclude |-> FALSE, include |-> <<>>]

Operators == {"+", "-", "*", "/"}

Range(f) == {f[i] : i \in DOMAIN f}

\* BenchRepo._iter_plots: the plots of the configuration ('plots' as a list)
iter_plots(cfg) == cfg.plots

\* get_metrics: the metrics the table and the plots use
used_metrics(cfg) ==
  Range(cfg.table)
    \cup UNION {({p.x, p.y} \ {""}) \cup Range(p.traces) \cup Range(p.annotations)
                 : p \in Range(iter_plots(cfg))}

\* get_metrics: the metrics that are an x axis, a y axis or a trace
plot_metrics(cfg) ==
  UNION {({p.x, p.y} \ {""}) \cup Range(p.traces) : p \in Range(iter_plots(cfg))}

\* get_metrics: the keys of graphparameters
trace_metrics(cfg) == UNION {Range(p.traces) : p \in Range(iter_plots(cfg))}

defined_metrics(cfg) == DOMAIN cfg.metrics

undefined_metrics(cfg) == used_metrics(cfg) \ defined_metrics(cfg)

\* spec.get('from', 'content') == 'content'
FromContent(spec) == spec.from = <<>> \/ spec.from = <<"content">>

\* re.search(r'[+\-*/]', from_val)
IsFormula(spec) == \E i \in 1..Len(spec.from) : spec.from[i] \in Operators

\* spec.get('header', metric_name)
header_name(cfg, m) ==
  IF cfg.metrics[m].header # "" THEN cfg.metrics[m].header ELSE m

content_metrics(cfg) == {m \in used_metrics(cfg) : FromContent(cfg.metrics[m])}

\* get_metrics: headers, the map from the header of the file to the metric
headers(cfg) ==
  [h \in {header_name(cfg, m) : m \in content_metrics(cfg)} |->
     CHOOSE m \in content_metrics(cfg) : header_name(cfg, m) = h]

\* get_metrics: calc_headers, the map from a derived metric to its formula
calc_headers(cfg) ==
  [m \in {k \in used_metrics(cfg) : IsFormula(cfg.metrics[k])} |-> cfg.metrics[m].from]

\* get_metrics: metrics_types, with the internal '_status' entry
metrics_types(cfg) ==
  [m \in used_metrics(cfg) \cup {"_status"} |->
     IF m # "_status" /\ cfg.metrics[m].type # "" THEN cfg.metrics[m].type ELSE "str"]

(***************************************************************************)
(* eval(string, {"__builtins__": None}, {}) on a text of the characters    *)
(* 0-9 + - * / ( ) . and space: Python parses the whole text (SyntaxError) *)
(* and then evaluates it (ZeroDivisionError).  The floats of the model are *)
(* whole numbers, so a quotient is exact when the divisor divides.  The    *)
(* operators ** and // are not parsed: no formula of the model makes them. *)
(***************************************************************************)
PFail(i)        == [ok |-> FALSE, zd |-> FALSE, v |-> VNone, i |-> i]
POk(v, zd, i)   == [ok |-> TRUE, zd |-> zd, v |-> v, i |-> i]

RECURSIVE SkipBlanks(_, _)
SkipBlanks(s, i) == IF i <= Len(s) /\ s[i] = " " THEN SkipBlanks(s, i + 1) ELSE i

RECURSIVE DigitsEnd(_, _)
DigitsEnd(s, i) == IF i <= Len(s) /\ s[i] \in DigitChars THEN DigitsEnd(s, i + 1) ELSE i

\* a decimal integer literal has no leading zero unless it is all zeros
NoLeadingZero(d) == Len(d) = 1 \/ d[1] # "0" \/ \A k \in 1..Len(d) : d[k] = "0"

NumberAt(s, i, e, e2) ==
  IF e = i THEN PFail(i)
  ELSE IF e2 > e THEN POk(VFloat(StrToNat(SubSeq(s, i, e - 1))), FALSE, e2)
  ELSE IF NoLeadingZero(SubSeq(s, i, e - 1)) THEN POk(VInt(StrToNat(SubSeq(s, i, e - 1))), FALSE, e)
  ELSE PFail(i)
FractionEnd(s, e) == IF e <= Len(s) /\ s[e] = "." THEN DigitsEnd(s, e + 1) ELSE e
NumberTo(s, i, e) == NumberAt(s, i, e, FractionEnd(s, e))
ParseNumber(s, i) == NumberTo(s, i, DigitsEnd(s, i))

NumType(a, b) == IF a.t = "float" \/ b.t = "float" THEN "float" ELSE "int"

Arith(op, a, b) ==
  CASE op = "+" -> [t |-> NumType(a, b), n |-> a.n + b.n, s |-> <<>>]
    [] op = "-" -> [t |-> NumType(a, b), n |-> a.n - b.n, s |-> <<>>]
    [] op = "*" -> [t |-> NumType(a, b), n |-> a.n * b.n, s |-> <<>>]
    [] op = "/" -> IF b.n = 0 THEN VFloat(0) ELSE VFloat(a.n \div b.n)

RECURSIVE ParseExpr(_, _), ParseExprRest(_, _, _), ParseTerm(_, _), ParseTermRest(_, _, _), ParseFactor(_, _)

Signed_factor(sign, f) ==
  IF ~f.ok THEN f
  ELSE IF sign = "-" THEN POk([f.v EXCEPT !.n = 0 - @], f.zd, f.i) ELSE f

Closed(s, i, e, j) ==
  IF e.ok /\ j <= Len(s) /\ s[j] = ")" THEN POk(e.v, e.zd, j + 1) ELSE PFail(i)
Parenthesised(s, i, e) == Closed(s, i, e, SkipBlanks(s, e.i))

FactorAt(s, i) ==
  IF i > Len(s) THEN PFail(i)
  ELSE IF s[i] \in {"+", "-"} THEN Signed_factor(s[i], ParseFactor(s, i + 1))
  ELSE IF s[i] = "(" THEN Parenthesised(s, i, ParseExpr(s, i + 1))
  ELSE ParseNumber(s, i)
ParseFactor(s, i0) == FactorAt(s, SkipBlanks(s, i0))

TermStep(s, op, acc, f) ==
  IF ~f.ok THEN f
  ELSE ParseTermRest(s, f.i,
         POk(Arith(op, acc.v, f.v), acc.zd \/ f.zd \/ (op = "/" /\ f.v.n = 0), f.i))
TermRestAt(s, i, acc) ==
  IF i <= Len(s) /\ s[i] \in {"*", "/"}
    THEN TermStep(s, s[i], acc, ParseFactor(s, i + 1))
    ELSE [acc EXCEPT !.i = i]
ParseTermRest(s, i0, acc) == TermRestAt(s, SkipBlanks(s, i0), acc)

TermFrom(s, f) == IF ~f.ok THEN f ELSE ParseTermRest(s, f.i, f)
ParseTerm(s, i) == TermFrom(s, ParseFactor(s, i))

ExprStep(s, op, acc, f) ==
  IF ~f.ok THEN f
  ELSE ParseExprRest(s, f.i, POk(Arith(op, acc.v, f.v), acc.zd \/ f.zd, f.i))
ExprRestAt(s, i, acc) ==
  IF i <= Len(s) /\ s[i] \in {"+", "-"}
    THEN ExprStep(s, s[i], acc, ParseTerm(s, i + 1))
    ELSE [acc EXCEPT !.i = i]
ParseExprRest(s, i0, acc) == ExprRestAt(s, SkipBlanks(s, i0), acc)

ExprFrom(s, f) == IF ~f.ok THEN f ELSE ParseExprRest(s, f.i, f)
ParseExpr(s, i) == ExprFrom(s, ParseTerm(s, i))

Evaluated(s, r) ==
  IF ~r.ok \/ r.i <= Len(s) THEN Raise("SyntaxError")
  ELSE IF r.zd THEN Raise("ZeroDivisionError")
  ELSE Ret(r.v)
pyeval(s) == Evaluated(s, ParseExpr(s, 1))

AllowedChars == DigitChars \cup {"+", "-", "*", "(", ")", ".", " ", "/"}

\* BenchRepo.safe_math_eval
safe_math_eval(string) ==
  IF \E i \in 1..Len(string) : string[i] \notin AllowedChars
    THEN Raise("Exception")
    ELSE pyeval(string)

(***************************************************************************)
(* Source files.  A file is a record: path, the text of its path; meta,    *)
(* the metadata mapping of its comment lines (key -> value); rows, the     *)
(* rows csv.DictReader gives (header -> value); doc, the JSON document of  *)
(* a .json file.  A dictionary is a function; merging lets b win.          *)
(***************************************************************************)
EmptyDict == <<>>
Merge(a, b) ==
  [k \in DOMAIN a \cup DOMAIN b |-> IF k \in DOMAIN b THEN b[k] ELSE a[k]]
Without(a, k) == [j \in DOMAIN a \ {k} |-> a[j]]

RECURSIVE Flatten(_)
Flatten(seqs) == IF Len(seqs) = 0 THEN <<>> ELSE Head(seqs) \o Flatten(Tail(seqs))

\* a variant that lets the fields of the job win over those of the result
job_results_job_first(job_info, results) ==
  [r \in 1..Len(results) |-> Merge(results[r], job_info)]
\* flatten_json: the results of one job, each merged over the job's fields
job_results(job_info, results) ==
  [r \in 1..Len(results) |-> Merge(job_info, results[r])]

\* job.get('results', [])
results_get(job) == IF "results" \in DOMAIN job THEN job["results"] ELSE <<>>

\* flatten_json; job_info.pop('results') raises KeyError when neither the
\* pipeline nor the job has the key
flatten_json(json_data) ==
  IF \E j \in 1..Len(json_data.jobs) :
       "results" \notin DOMAIN Merge(json_data.pipeline, json_data.jobs[j])
    THEN Raise("KeyError")
    ELSE Ret(Flatten(
           [j \in 1..Len(json_data.jobs) |->
              job_results(Without(Merge(json_data.pipeline, json_data.jobs[j]), "results"),
                          results_get(json_data.jobs[j]))]))

\* flatten_json: the document after the call (job_info is a new dictionary,
\* pop takes the key from it) and what the call returned
flatten_json_call(json_data) == [json_data |-> json_data, ret |-> flatten_json(json_data)]

\* the first exception of a sequence of results, "" if none
RECURSIVE FirstExc(_)
FirstExc(rs) ==
  IF Len(rs) = 0 THEN ""
  ELSE IF Head(rs).exc # "" THEN Head(rs).exc ELSE FirstExc(Tail(rs))

\* the sequence of the results, or the first exception
AllOrRaise(rs) ==
  IF FirstExc(rs) # "" THEN Raise(FirstExc(rs)) ELSE Ret([i \in 1..Len(rs) |-> rs[i].v])

RECURSIVE SelectRows(_, _)
SelectRows(rows, keep) ==
  IF Len(rows) = 0 THEN <<>>
  ELSE (IF keep[1] THEN <<rows[1]>> ELSE <<>>) \o SelectRows(Tail(rows), Tail(keep))

\* get_metrics: the header of the file that gives 'ts', "" if none
ts_csv_header(hd) ==
  IF \E h \in DOMAIN hd : hd[h] = "ts" THEN CHOOSE h \in DOMAIN hd : hd[h] = "ts" ELSE ""

\* line.get(key, '')
line_get(line, key) == IF key \in DOMAIN line THEN line[key] ELSE VStr(<<>>)

\* get_metrics: a row whose 'ts' field is blank is skipped
blank_field(line, h) == h # "" /\ strip(pystr(line_get(line, h))) = <<>>
blank_ts(hd, line) == blank_field(line, ts_csv_header(hd))

\* get_metrics: the formula with every operand replaced by the field of the
\* row; an operand that is no header of the row is a KeyError.  A formula is
\* the sequence of its operands and operators; no field of the model holds
\* the name of an operand, so str.replace changes each operand once
RECURSIVE substitute(_, _)
subst_token(tok, line, rest) ==
  IF tok \in Operators THEN (IF rest.exc # "" THEN rest ELSE Ret(<<tok>> \o rest.v))
  ELSE IF tok \notin DOMAIN line THEN Raise("KeyError")
  ELSE IF line[tok].t # "str" THEN Raise("TypeError")
  ELSE IF rest.exc # "" THEN rest
  ELSE Ret(line[tok].s \o rest.v)
substitute(formula, line) ==
  IF Len(formula) = 0 THEN Ret(<<>>)
  ELSE subst_token(Head(formula), line, substitute(Tail(formula), line))

\* get_metrics: only a SyntaxError of the evaluation gives the default
calc_result(mtype, r) ==
  IF r.exc = "SyntaxError"
    THEN (IF mtype \in KnownTypes THEN Ret(default(mtype)) ELSE Raise("KeyError"))
    ELSE r
calc_eval(mtype, calc) ==
  IF calc.exc # "" THEN calc ELSE calc_result(mtype, safe_math_eval(calc.v))

\* get_metrics: the value of one derived metric in one row
calc_value(mtype, formula, line) == calc_eval(mtype, substitute(formula, line))

\* get_metrics: the row with its headers renamed to the metrics
header_line(hd, line) ==
  [m \in Range(hd) |-> line_get(line, CHOOSE h \in DOMAIN hd : hd[h] = m)]

line_with_calcs(base, calcs) ==
  IF \E k \in DOMAIN calcs : calcs[k].exc # ""
    THEN Raise((calcs[CHOOSE k \in DOMAIN calcs : calcs[k].exc # ""]).exc)
    ELSE Ret(Merge(base, [k \in DOMAIN calcs |-> calcs[k].v]))

\* get_metrics: current_line with its derived metrics
current_line(cfg, loc, line) ==
  line_with_calcs(header_line(loc.headers, line),
                  [k \in DOMAIN loc.calc_headers |->
                     calc_value(cfg.metrics[k].type, loc.calc_headers[k], line)])

lines_of(cfg, loc, kept) ==
  AllOrRaise([i \in 1..Len(kept) |-> current_line(cfg, loc, kept[i])])

\* get_metrics: current_data after reading the rows of one file
build_rows(cfg, loc, data) ==
  lines_of(cfg, loc, SelectRows(data, [i \in 1..Len(data) |-> ~blank_ts(loc.headers, data[i])]))

\* get_metrics: one field converted; a ValueError leaves the field as it was read
kept_on_ValueError(value, r) == IF r.exc = "ValueError" THEN Ret(value) ELSE r
convert_field(spec, mtype, key, value) ==
  kept_on_ValueError(value,
    convert_data(value, IF key = "ts" THEN "ts" ELSE mtype,
                 IF mtype = "str" THEN spec.regex ELSE spec.factor))

converted(keys, conv) ==
  IF \E i \in 1..Len(conv) : \E k \in keys : conv[i][k].exc # ""
    THEN Raise(LET b == CHOOSE b \in (1..Len(conv)) \X keys : conv[b[1]][b[2]].exc # ""
               IN conv[b[1]][b[2]].exc)
    ELSE Ret([i \in 1..Len(conv) |-> [k \in keys |-> conv[i][k].v]])

\* get_metrics: the content and derived metrics of every row converted
convert_rows(cfg, mtypes, keys, rows) ==
  converted(keys, [i \in 1..Len(rows) |->
                     [k \in keys |-> convert_field(cfg.metrics[k], mtypes[k], k, rows[i][k])]])

(***************************************************************************)
(* Common fields of a file: static, filename and metadata metrics          *)
(***************************************************************************)
\* BenchRepo._type_cast_value: v is the typed value, vt the type; vt = ""
\* stands for the pair (None, None) of an unknown type
Cast(v, vt)    == [exc |-> "", v |-> v, vt |-> vt]
CastRaise(e)   == [exc |-> e, v |-> VNone, vt |-> ""]

spec_factor(spec) == IF spec.factor # 0 THEN spec.factor ELSE 1

cast_date(d)  == IF d.exc # "" THEN CastRaise(d.exc) ELSE Cast(VStr(d.v.norm), "date")
cast_epoch(d) == IF d.exc # "" THEN CastRaise(d.exc) ELSE Cast(VFloat(d.v.epoch), "ts")
cast_number(r, factor, vt) ==
  IF r.exc # "" THEN CastRaise(r.exc) ELSE Cast(times(r.v, factor), vt)

type_cast_value(raw_value, spec, metric_name) ==
  CASE spec.type = "date"  -> cast_date(dateutil_parse(raw_value))
    [] spec.type = "int"   -> cast_number(pyint(raw_value), spec_factor(spec), "int")
    [] spec.type = "float" -> cast_number(pyfloat(raw_value), spec_factor(spec), "float")
    [] spec.type = "str"   -> Cast(VStr(pystr(raw_value)), "str")
    [] spec.type = "bool" ->
         IF raw_value.t \in {"str", "int", "bool"}
           THEN Cast(VBool(lower(pystr(raw_value)) \notin {sfalse, <<"0">>, <<>>}), "bool")
           ELSE Cast(VBool(truthy(raw_value)), "bool")
    [] spec.type = "ts"    -> cast_epoch(dateutil_parse(raw_value))
    [] spec.type = "" ->
         IF metric_name = "ts" THEN cast_epoch(dateutil_parse(raw_value))
         ELSE Cast(VStr(pystr(raw_value)), "str")
    [] OTHER -> Cast(VNone, "")

\* 'name' in spec['from']: the tokens that contain the text 'name'
NameTokens == {"name", "filename"}
FromFilename(spec) == \E i \in 1..Len(spec.from) : spec.from[i] \in NameTokens
FromStatic(spec)   == spec.from = <<"static">> \/ spec.from = <<"value">>
FromMetadata(spec) == spec.from = <<"metadata">>

\* spec.get('key') or spec.get('header') or metric_name
key_to_find(spec, m) ==
  IF spec.key # "" THEN spec.key ELSE IF spec.header # "" THEN spec.header ELSE m

sBenchmark == <<"b", "e", "n", "c", "h", "m", "a", "r", "k">>
sBm == <<"b", "m">>

\* get_metrics: what one used metric adds to common_data; has = FALSE when
\* the metric is left out (logged and skipped)
Common(v, vt)  == [exc |-> "", has |-> TRUE, v |-> v, vt |-> vt]
CommonSkip     == [exc |-> "", has |-> FALSE, v |-> VNone, vt |-> ""]
CommonRaise(e) == [exc |-> e, has |-> FALSE, v |-> VNone, vt |-> ""]

OfCast(c) ==
  IF c.exc # "" THEN CommonRaise(c.exc)
  ELSE IF c.vt = "" THEN CommonSkip
  ELSE Common(c.v, c.vt)

common_metric(spec, file, m) ==
  IF spec.from = <<>> THEN CommonSkip
  ELSE IF FromStatic(spec) THEN
    IF ~spec.hasvalue THEN CommonSkip
    ELSE Common(spec.value, IF spec.type # "" THEN spec.type ELSE "str")
  ELSE IF FromFilename(spec) THEN
    IF DOMAIN spec.regex = {} THEN CommonSkip
    ELSE IF ~re_search(spec.regex, file.path) THEN CommonSkip
    ELSE OfCast(type_cast_value(VStr(spec.regex[file.path]), spec, m))
  ELSE IF FromMetadata(spec) THEN
    IF DOMAIN file.meta = {} THEN CommonSkip
    ELSE IF key_to_find(spec, m) \notin DOMAIN file.meta THEN CommonSkip
    ELSE OfCast(type_cast_value(file.meta[key_to_find(spec, m)], spec, m))
  ELSE CommonSkip

CommonBase == ("__type" :> VStr(sBenchmark)) @@ ("__prefix" :> VStr(sBm))

common_of(mtypes, cm) ==
  IF \E m \in DOMAIN cm : cm[m].exc # ""
    THEN [exc |-> cm[CHOOSE m \in DOMAIN cm : cm[m].exc # ""].exc,
          data |-> CommonBase, mtypes |-> mtypes]
    ELSE [exc |-> "",
          data |-> Merge(CommonBase, [m \in {k \in DOMAIN cm : cm[k].has} |-> cm[m].v]),
          mtypes |-> Merge(mtypes, [m \in {k \in DOMAIN cm : cm[k].has} |-> cm[m].vt])]

\* get_metrics: common_data of one file and the metrics_types it leaves
common_data(cfg, loc, file, mtypes) ==
  common_of(mtypes, [m \in loc.used_metrics |-> common_metric(cfg.metrics[m], file, m)])

(***************************************************************************)
(* Pattern filter on the rows of a file                                    *)
(***************************************************************************)
\* A rule of exclude or include is a regular expression (shape "str": texts
\* are the texts re.search finds it in; shape "empty" is the pattern ''), a
\* list of rules (shape "list") or a mapping of field -> rule (shape "dict").
Pat(texts)      == [shape |-> "str", texts |-> texts, items |-> <<>>, fields |-> <<>>]
PatList(items)  == [shape |-> "list", texts |-> {}, items |-> items, fields |-> <<>>]
PatDict(fields) == [shape |-> "dict", texts |-> {}, items |-> <<>>, fields |-> fields]
NoRule          == [shape |-> "empty", texts |-> {}, items |-> <<>>, fields |-> <<>>]

\* the elements apply_pattern receives: a set of names, a list of records or
\* a mapping of name -> record
Elements(kind, items) == [kind |-> kind, items |-> items]

\* `if exclude`, `if include`
rule_given(rule) ==
  CASE rule.shape = "str"  -> TRUE
    [] rule.shape = "list" -> Len(rule.items) > 0
    [] rule.shape = "dict" -> DOMAIN rule.fields # {}
    [] OTHER               -> FALSE

\* get_metrics: to_exclude and to_include, the rules of the used metrics
to_exclude(cfg, loc) ==
  PatDict([m \in {k \in loc.used_metrics : cfg.metrics[k].hasexclude} |->
             PatList([j \in 1..Len(cfg.metrics[m].exclude) |-> Pat(cfg.metrics[m].exclude[j])])])
to_include(cfg, loc) ==
  PatDict([m \in {k \in loc.used_metrics : cfg.metrics[k].hasinclude} |->
             PatList([j \in 1..Len(cfg.metrics[m].include) |-> Pat(cfg.metrics[m].include[j])])])

\* re.search(pattern, text) of a text; of a value that is no text it raises
\* TypeError
found(pattern, text) == pattern.shape = "empty" \/ text \in pattern.texts
searched(pattern, value) ==
  IF value.t # "str" THEN Raise("TypeError") ELSE Ret(found(pattern, value.s))

\* BenchRepo.search_patterns: the rules that are no text are not read
search_patterns(patterns, unit) ==
  CASE patterns.shape = "str"  -> found(patterns, unit)
    [] patterns.shape = "list" ->
         \E j \in 1..Len(patterns.items) :
           patterns.items[j].shape \in {"str", "empty"} /\ found(patterns.items[j], unit)
    [] OTHER                   -> FALSE

\* check_unit: (key in unit) and re.search(value, unit[key]), value a text or
\* a list of texts
check_value(unit, key, value) ==
  IF key \notin DOMAIN unit THEN Ret(FALSE)
  ELSE IF value.shape \in {"str", "empty"} THEN searched(value, unit[key])
  ELSE IF value.shape = "list" /\ Len(value.items) > 0 THEN
    (IF unit[key].t # "str" THEN Raise("TypeError")
     ELSE Ret(\E j \in 1..Len(value.items) : found(value.items[j], unit[key].s)))
  ELSE Ret(FALSE)

\* check_unit: the loop over the items of a mapping; the model reads a field
\* that is no text only through one key
check_keys(unit, fields) ==
  IF \E k \in DOMAIN fields : check_value(unit, k, fields[k]).exc # ""
    THEN Raise("TypeError")
    ELSE Ret(\E k \in DOMAIN fields : check_value(unit, k, fields[k]).v)

\* check_unit: one rule of a list
check_item(unitname, unit, pat) ==
  CASE pat.shape \in {"str", "empty"} -> searched(pat, unitname)
    [] pat.shape = "dict"             -> check_keys(unit, pat.fields)
    [] OTHER                          -> Ret(FALSE)

\* check_unit: the loop over a list of rules, left at the first match
RECURSIVE check_items(_, _, _, _)
check_item_at(unitname, unit, items, j, r) ==
  IF r.exc # "" \/ r.v THEN r ELSE check_items(unitname, unit, items, j + 1)
check_items(unitname, unit, items, j) ==
  IF j > Len(items) THEN Ret(FALSE)
  ELSE check_item_at(unitname, unit, items, j, check_item(unitname, unit, items[j]))

\* BenchRepo.check_unit
check_unit(unitname, unit, pattern) ==
  CASE pattern.shape = "str"  -> searched(pattern, unitname)
    [] pattern.shape = "list" -> check_items(unitname, unit, pattern.items, 1)
    [] pattern.shape = "dict" -> check_keys(unit, pattern.fields)
    [] OTHER                  -> Ret(FALSE)

\* a variant that reads the include rules only
to_remove_include_only(exclude, include, ex, inc) == rule_given(include) /\ ~inc
\* apply_pattern: the unit goes to to_remove
to_remove(exclude, include, ex, inc) ==
  (rule_given(exclude) /\ ex) \/ (rule_given(include) /\ ~inc)

\* apply_pattern on a list: idx is the name check_unit receives
filtered_by(elements, exclude, include, ex, inc) ==
  IF rule_given(exclude) /\ FirstExc(ex) # "" THEN Raise(FirstExc(ex))
  ELSE IF rule_given(include) /\ FirstExc(inc) # "" THEN Raise(FirstExc(inc))
  ELSE Ret(SelectRows(elements,
             [i \in 1..Len(elements) |-> ~to_remove(exclude, include, ex[i].v, inc[i].v)]))

\* apply_pattern on a mapping of name -> record
filtered_units(units, exclude, include, ex, inc) ==
  IF \E n \in DOMAIN units : (rule_given(exclude) /\ ex[n].exc # "")
                               \/ (rule_given(include) /\ inc[n].exc # "")
    THEN Raise("TypeError")
    ELSE Ret([n \in {u \in DOMAIN units : ~to_remove(exclude, include, ex[u].v, inc[u].v)}
                |-> units[n]])

\* BenchRepo.apply_pattern: the elements that are left
apply_pattern(elements, exclude, include) ==
  CASE elements.kind = "set" ->
         Ret({u \in elements.items :
                ~to_remove(exclude, include, search_patterns(exclude, u),
                           search_patterns(include, u))})
    [] elements.kind = "list" ->
         filtered_by(elements.items, exclude, include,
           [i \in 1..Len(elements.items) |-> check_unit(VInt(i - 1), elements.items[i], exclude)],
           [i \in 1..Len(elements.items) |-> check_unit(VInt(i - 1), elements.items[i], include)])
    [] elements.kind = "dict" ->
         filtered_units(elements.items, exclude, include,
           [n \in DOMAIN elements.items |-> check_unit(VStr(n), elements.items[n], exclude)],
           [n \in DOMAIN elements.items |-> check_unit(VStr(n), elements.items[n], include)])

(***************************************************************************)
(* Status of a row, identifier of a record                                 *)
(***************************************************************************)
sSUCCESSFUL == <<"S", "U", "C", "C", "E", "S", "S", "F", "U", "L">>
sFAILED     == <<"F", "A", "I", "L", "E", "D">>

\* get_metrics: is_empty of the value of a metric
empty_text(val) == val = <<>> \/ lower(val) \in {snone, snull, snan}
is_empty(v) == empty_text(strip(pystr(v)))

\* metrics_types.get(metric, 'str')
type_get(mtypes, m) == IF m \in DOMAIN mtypes THEN mtypes[m] ELSE "str"

\* a variant in which an empty text fails the row too
metric_fails_any_type(loc, mtypes, line, m) ==
  m \in DOMAIN line /\ is_empty(line[m])
\* get_metrics: a used metric of the row fails the row
metric_fails(loc, mtypes, line, m) ==
  /\ m \in DOMAIN line
  /\ is_empty(line[m])
  /\ (m \in loc.plot_metrics \/ type_get(mtypes, m) # "str")

\* a variant that gives a plot metric its default too
validated_value_default(loc, mtypes, line, m) ==
  IF ~is_empty(line[m]) THEN line[m] ELSE default_get(type_get(mtypes, m))
\* get_metrics: the value validation leaves in a used metric of the row
validated_value(loc, mtypes, line, m) ==
  IF ~is_empty(line[m]) THEN line[m]
  ELSE IF m \in loc.plot_metrics THEN VNone
  ELSE default_get(type_get(mtypes, m))

\* a variant that ignores a status the row carries
run_status_fresh(line) == VStr(sSUCCESSFUL)
\* get_metrics: run_status = line.get('_status', "SUCCESSFUL")
run_status(line) ==
  IF "_status" \in DOMAIN line THEN line["_status"] ELSE VStr(sSUCCESSFUL)

\* get_metrics: validation and default-setting of one row
validate_line(loc, mtypes, line) ==
  Merge([k \in DOMAIN line |->
           IF k \in loc.used_metrics THEN validated_value(loc, mtypes, line, k) ELSE line[k]],
        "_status" :>
           IF \E m \in loc.used_metrics : metric_fails(loc, mtypes, line, m)
             THEN VStr(sFAILED)
             ELSE run_status(line))

\* str.rstrip(chars) for one character
RECURSIVE rstrip_char(_, _)
rstrip_char(s, c) ==
  IF Len(s) > 0 /\ s[Len(s)] = c THEN rstrip_char(SubSeq(s, 1, Len(s) - 1), c) ELSE s

\* f"{value:.6f}" of a whole float
format_6f(n) == IntToStr(n) \o <<".", "0", "0", "0", "0", "0", "0">>

\* a variant that takes str(value) of every value
format_id_value_str(value) == pystr(value)
\* BenchRepo._format_id_value
format_id_value(value) ==
  IF value.t = "float" THEN rstrip_char(rstrip_char(format_6f(value.n), "0"), ".")
  ELSE pystr(value)

\* the keys of 'parameters': the table metrics in configured order, each once
RECURSIVE Dedup(_)
Dedup(seq) ==
  IF Len(seq) = 0 THEN <<>>
  ELSE IF seq[Len(seq)] \in Range(SubSeq(seq, 1, Len(seq) - 1))
    THEN Dedup(SubSeq(seq, 1, Len(seq) - 1))
    ELSE Append(Dedup(SubSeq(seq, 1, Len(seq) - 1)), seq[Len(seq)])
parameters(cfg) == Dedup(cfg.table)

\* data.get(key)
data_get(data, key) == IF key \in DOMAIN data THEN data[key] ELSE VNone

\* get_metrics: the identifier of a record
id_of(params, data) ==
  join(<<"_">>, [i \in 1..Len(params) |-> format_id_value(data_get(data, params[i]))])
record_id(cfg, data) == id_of(parameters(cfg), data)

Max(S) == CHOOSE x \in S : \A y \in S : y <= x

(***************************************************************************)
(* One iteration of the loop over the sources in get_metrics.  The context *)
(* c of an iteration is the record of what it reads: cfg, the              *)
(* configuration; loc, the locals get_metrics computed before the loop;    *)
(* file, the source; wm, self._lastts; wmtemp, lastts_temp; mtypes,        *)
(* metrics_types; gp, graphparameters.                                     *)
(***************************************************************************)
IsCsv(file)  == endswith(file.path, sCsv)
IsJson(file) == endswith(file.path, sJson)

\* the rows read from a file
read_source(file) ==
  IF IsCsv(file) THEN Ret(file.rows) ELSE flatten_json(file.doc)

\* get_metrics: set(required_keys) - set(available_keys)
missing_keys(hd, data) == DOMAIN hd \ DOMAIN data[1]

\* a variant that filters nothing
after_watermark_none(rows, wm) == rows
\* get_metrics: the rows left by the watermark filter
after_watermark(rows, wm) ==
  IF wm # 0
    THEN SelectRows(rows, [i \in 1..Len(rows) |-> rows[i]["ts"].t # "nan" /\ rows[i]["ts"].n > wm])
    ELSE rows

\* a variant that forgets the timestamps of the files before
new_lastts_temp_of_file(kept, wm, wmtemp) ==
  Max({kept[i]["ts"].n : i \in 1..Len(kept)} \cup {wm})
\* get_metrics: lastts_temp after a file
new_lastts_temp(kept, wm, wmtemp) ==
  Max({kept[i]["ts"].n : i \in 1..Len(kept)} \cup {wm, wmtemp})

\* what one iteration leaves: outcome is "skipped" (continue), "rejected"
\* (return False), "raised" (an exception leaves get_metrics) or "ok";
\* merged is current_data after the pattern filter, valid after validation,
\* appended what raw received, kept what the watermark filter left
Step(outcome, e, mtypes, gp, wmtemp) ==
  [outcome |-> outcome, exc |-> e, merged |-> <<>>, valid |-> <<>>, appended |-> <<>>,
   kept |-> <<>>, mtypes |-> mtypes, graphparameters |-> gp, lastts_temp |-> wmtemp]

\* a variant that forgets the timestamps seen in the files before
step_skip_forgetting(c) == Step("skipped", "", c.mtypes, c.gp, 0)
\* get_metrics: continue
step_skip(c) == Step("skipped", "", c.mtypes, c.gp, c.wmtemp)
step_raise(c, e) == Step("raised", e, c.mtypes, c.gp, c.wmtemp)

\* get_metrics: graphparameters[param].update([data[param] for data in current_data])
graph_values(gp, rows) ==
  [p \in DOMAIN gp |-> gp[p] \cup {rows[i][p] : i \in 1..Len(rows)}]

\* a variant that appends after the watermark filter
raw_rows_after_cut(rows, wm) == after_watermark(rows, wm)
\* get_metrics: raw_data += current_data, before the watermark filter
raw_rows(rows, wm) == rows

\* a variant that filters against the timestamps of the files before too
step_valid_moving(c, mtypes, merged, valid) ==
  IF \E i \in 1..Len(valid) : \E p \in DOMAIN c.gp : p \notin DOMAIN valid[i]
    THEN [Step("raised", "KeyError", mtypes, c.gp, c.wmtemp)
            EXCEPT !.merged = merged, !.valid = valid]
  ELSE IF \E i \in 1..Len(valid) : valid[i]["ts"].t \in {"str", "none"}
    THEN [Step("raised", "TypeError", mtypes, graph_values(c.gp, valid), c.wmtemp)
            EXCEPT !.merged = merged, !.valid = valid, !.appended = raw_rows(valid, c.wm)]
  ELSE [Step("ok", "", mtypes, graph_values(c.gp, valid),
             new_lastts_temp(after_watermark(valid, Max({c.wm, c.wmtemp})), c.wm, c.wmtemp))
          EXCEPT !.merged = merged, !.valid = valid, !.appended = raw_rows(valid, c.wm),
                 !.kept = after_watermark(valid, Max({c.wm, c.wmtemp}))]
\* get_metrics: from the validated rows to the rows stored in _dict
step_valid(c, mtypes, merged, valid) ==
  IF \E i \in 1..Len(valid) : \E p \in DOMAIN c.gp : p \notin DOMAIN valid[i]
    THEN [Step("raised", "KeyError", mtypes, c.gp, c.wmtemp)
            EXCEPT !.merged = merged, !.valid = valid]
  ELSE IF \E i \in 1..Len(valid) : valid[i]["ts"].t \in {"str", "none"}
    THEN [Step("raised", "TypeError", mtypes, graph_values(c.gp, valid), c.wmtemp)
            EXCEPT !.merged = merged, !.valid = valid, !.appended = raw_rows(valid, c.wm)]
  ELSE [Step("ok", "", mtypes, graph_values(c.gp, valid),
             new_lastts_temp(after_watermark(valid, c.wm), c.wm, c.wmtemp))
          EXCEPT !.merged = merged, !.valid = valid, !.appended = raw_rows(valid, c.wm),
                 !.kept = after_watermark(valid, c.wm)]

\* a variant that goes on with the next file when 'ts' is missing
step_filtered_continue(c, mtypes, filtered) ==
  IF filtered.exc # "" THEN step_raise(c, filtered.exc)
  ELSE IF Len(filtered.v) = 0 THEN step_raise(c, "IndexError")
  ELSE IF "ts" \notin DOMAIN filtered.v[1] THEN step_skip(c)
  ELSE step_valid(c, mtypes, filtered.v,
                  [i \in 1..Len(filtered.v) |-> validate_line(c.loc, mtypes, filtered.v[i])])
\* get_metrics: the filtered rows; return False when the first has no 'ts'
step_filtered(c, mtypes, filtered) ==
  IF filtered.exc # "" THEN step_raise(c, filtered.exc)
  ELSE IF Len(filtered.v) = 0 THEN step_raise(c, "IndexError")
  ELSE IF "ts" \notin DOMAIN filtered.v[1]
    THEN [Step("rejected", "", mtypes, c.gp, c.wmtemp) EXCEPT !.merged = filtered.v]
  ELSE step_valid(c, mtypes, filtered.v,
                  [i \in 1..Len(filtered.v) |-> validate_line(c.loc, mtypes, filtered.v[i])])

step_common(c, rows, common) ==
  IF common.exc # "" THEN step_raise(c, common.exc)
  ELSE step_filtered(c, common.mtypes,
         apply_pattern(Elements("list", [i \in 1..Len(rows) |-> Merge(rows[i], common.data)]),
                       to_exclude(c.cfg, c.loc), to_include(c.cfg, c.loc)))

step_converted(c, conv) ==
  IF conv.exc # "" THEN step_raise(c, conv.exc)
  ELSE step_common(c, conv.v, common_data(c.cfg, c.loc, c.file, c.mtypes))

step_built(c, built) ==
  IF built.exc # "" THEN step_raise(c, built.exc)
  ELSE step_converted(c,
         convert_rows(c.cfg, c.mtypes,
                      Range(c.loc.headers) \cup DOMAIN c.loc.calc_headers, built.v))

step_read(c, data) ==
  IF data.exc # "" THEN step_raise(c, data.exc)
  ELSE IF Len(data.v) = 0 THEN step_skip(c)
  ELSE IF missing_keys(c.loc.headers, data.v) # {} THEN step_skip(c)
  ELSE step_built(c, build_rows(c.cfg, c.loc, data.v))

source_step(c) ==
  IF ~IsCsv(c.file) /\ ~IsJson(c.file) THEN step_skip(c)
  ELSE step_read(c, read_source(c.file))

\* get_metrics: the records of a file as _dict receives them, keyed by the counter
new_records(cfg, kept, first) ==
  [n \in first..(first + Len(kept) - 1) |->
     Merge(kept[n - first + 1], "id" :> VStr(record_id(cfg, kept[n - first + 1])))]

(***************************************************************************)
(* gen_footer_conf: the combinations of trace values that get a footer     *)
(***************************************************************************)
\* a == b of Python: numbers by value, NaN equal to nothing, None and texts
\* to themselves
py_eq(a, b) ==
  IF a.t = "nan" \/ b.t = "nan" THEN FALSE
  ELSE IF IsNumber(a) /\ IsNumber(b) THEN a.n = b.n
  ELSE a = b

\* the characters of the model in the order of their code points
Alphabet ==
  <<" ", "-", ".", "0", "1", "2", "3", "4", "5", "6", "7", "8", "9",
    "A", "B", "C", "D", "E", "F", "G", "H", "I", "J", "K", "L", "M",
    "N", "O", "P", "Q", "R", "S", "T", "U", "V", "W", "X", "Y", "Z", "_",
    "a", "b", "c", "d", "e", "f", "g", "h", "i", "j", "k", "l", "m",
    "n", "o", "p", "q", "r", "s", "t", "u", "v", "w", "x", "y", "z">>

ord(c) == CHOOSE i \in 1..Len(Alphabet) : Alphabet[i] = c

\* a < b of two texts that differ: "lt" or "gt"
RECURSIVE str_order(_, _, _)
str_order(s, t, i) ==
  IF i > Len(s) THEN "lt"
  ELSE IF i > Len(t) THEN "gt"
  ELSE IF s[i] = t[i] THEN str_order(s, t, i + 1)
  ELSE IF ord(s[i]) < ord(t[i]) THEN "lt" ELSE "gt"

\* a < b of two values that are not equal: "lt", "gt", or "err" where Python
\* raises TypeError ('<' not supported between the two types)
value_order(a, b) ==
  IF a.t = "nan" \/ b.t = "nan" THEN
    (IF (IsNumber(a) \/ a.t = "nan") /\ (IsNumber(b) \/ b.t = "nan") THEN "gt" ELSE "err")
  ELSE IF IsNumber(a) /\ IsNumber(b) THEN (IF a.n < b.n THEN "lt" ELSE "gt")
  ELSE IF a.t = "str" /\ b.t = "str" THEN str_order(a.s, b.s, 1)
  ELSE "err"

\* the names of the model as sorted() orders them
NameOrder ==
  <<"_status", "bw", "id", "name", "node", "note", "ratio", "size", "sys", "ts", "value">>

\* sorted(d.items()): the keys of a combination in order
sorted_keys(names) == SelectSeq(NameOrder, LAMBDA k : k \in names)

\* tuple(sorted(a.items())) < tuple(sorted(b.items())): the first item that
\* differs decides
RECURSIVE items_order(_, _, _, _)
items_order(keys, a, b, i) ==
  IF i > Len(keys) THEN "eq"
  ELSE IF py_eq(a[keys[i]], b[keys[i]]) THEN items_order(keys, a, b, i + 1)
  ELSE value_order(a[keys[i]], b[keys[i]])

\* product(*graphparameters.values()) zipped with the keys
combinations(gp) ==
  IF DOMAIN gp = {} THEN {}
  ELSE {c \in [DOMAIN gp -> UNION Range(gp)] : \A k \in DOMAIN gp : c[k] \in gp[k]}

\* self.default[metrics[key]] == value for a key of the combination
has_default(mtypes, c) == \E k \in DOMAIN c : py_eq(default(mtypes[k]), c[k])

\* a variant that looks for every item in a record of its own
in_raw_per_item(rawdata, c) ==
  \A k \in DOMAIN c :
    \E i \in 1..Len(rawdata) : k \in DOMAIN rawdata[i] /\ py_eq(rawdata[i][k], c[k])
\* any(set(combination.items()).issubset(set(data.items())) for data in raw_data)
in_raw(rawdata, c) ==
  \E i \in 1..Len(rawdata) :
    \A k \in DOMAIN c : k \in DOMAIN rawdata[i] /\ py_eq(rawdata[i][k], c[k])

\* a variant that keeps the combinations with a default coordinate
valid_combination_any(mtypes, rawdata, c) == in_raw(rawdata, c)
\* the flag valid_combination after the loop over the items of a combination
valid_combination(mtypes, rawdata, c) == ~has_default(mtypes, c) /\ in_raw(rawdata, c)

\* valid_combinations.sort(key=lambda d: tuple(sorted(d.items()))); with one
\* trace every two combinations are compared by their values, and with more
\* the model holds values of one type per trace
least(S, keys) == CHOOSE m \in S : \A o \in S \ {m} : items_order(keys, m, o, 1) = "lt"
RECURSIVE sort_from(_, _, _)
sort_combinations(S, keys) == IF S = {} THEN <<>> ELSE sort_from(S, keys, least(S, keys))
sort_from(S, keys, m) == <<m>> \o sort_combinations(S \ {m}, keys)

sorted_or_raise(S, keys) ==
  IF \E a \in S : \E b \in S \ {a} : items_order(keys, a, b, 1) = "err"
    THEN Raise("TypeError")
    ELSE Ret(sort_combinations(S, keys))

\* gen_footer_conf up to the sorted list valid_combinations
valid_combinations(gp, mtypes, rawdata) ==
  IF combinations(gp) # {} /\ \E k \in DOMAIN gp : mtypes[k] \notin KnownTypes
    THEN Raise("KeyError")
    ELSE sorted_or_raise({c \in combinations(gp) : valid_combination(mtypes, rawdata, c)},
                         sorted_keys(DOMAIN gp))

(***************************************************************************)
(* Accumulation of two units: a value of _data is a mapping, a list, a set *)
(* or any other value                                                      *)
(***************************************************************************)
DDict(m) == [kind |-> "dict", m |-> m, l |-> <<>>, s |-> {}, v |-> VNone]
DList(l) == [kind |-> "list", m |-> <<>>, l |-> l, s |-> {}, v |-> VNone]
DSet(s)  == [kind |-> "set", m |-> <<>>, l |-> <<>>, s |-> s, v |-> VNone]
DVal(v)  == [kind |-> "value", m |-> <<>>, l |-> <<>>, s |-> {}, v |-> v]

\* BenchRepo.deep_merge: what target_dict holds after the call
RECURSIVE deep_merge(_, _)
\* a variant that extends the list of the source with the list of the target
merge_value_source_first(target_value, source_value) ==
  IF target_value.kind = "dict" /\ source_value.kind = "dict"
    THEN DDict(deep_merge(target_value.m, source_value.m))
  ELSE IF target_value.kind = "list" /\ source_value.kind = "list"
    THEN DList(source_value.l \o target_value.l)
  ELSE IF target_value.kind = "set" /\ source_value.kind = "set"
    THEN DSet(target_value.s \cup source_value.s)
  ELSE source_value
\* deep_merge: a key of both dictionaries
merge_value(target_value, source_value) ==
  IF target_value.kind = "dict" /\ source_value.kind = "dict"
    THEN DDict(deep_merge(target_value.m, source_value.m))
  ELSE IF target_value.kind = "list" /\ source_value.kind = "list"
    THEN DList(target_value.l \o source_value.l)
  ELSE IF target_value.kind = "set" /\ source_value.kind = "set"
    THEN DSet(target_value.s \cup source_value.s)
  ELSE source_value
deep_merge(target_dict, source_dict) ==
  [key \in DOMAIN target_dict \cup DOMAIN source_dict |->
     IF key \notin DOMAIN source_dict THEN target_dict[key]
     ELSE IF key \notin DOMAIN target_dict THEN source_dict[key]
     ELSE merge_value(target_dict[key], source_dict[key])]

\* BenchRepo.add: the records of to_add whose key holds an empty record in
\* self._dict: `if not add_to` sends their fields to self._dict itself
spilled(self_dict, to_add) ==
  {bk \in DOMAIN to_add : bk \in DOMAIN self_dict /\ self_dict[bk] = EmptyDict}
spilled_fields(to_add, keys) ==
  [f \in UNION {DOMAIN to_add[bk] : bk \in keys} |->
     to_add[CHOOSE bk \in keys : f \in DOMAIN to_add[bk]][f]]

\* BenchRepo.add(to_add): what self._dict holds after the call; the records
\* are mappings of field -> value
add(self_dict, to_add) ==
  Merge([bk \in DOMAIN self_dict \cup DOMAIN to_add |->
           IF bk \notin DOMAIN to_add THEN self_dict[bk]
           ELSE IF bk \notin DOMAIN self_dict THEN to_add[bk]
           ELSE IF self_dict[bk] = EmptyDict THEN EmptyDict
           ELSE Merge(self_dict[bk], to_add[bk])],
        spilled_fields(to_add, spilled(self_dict, to_add)))

\* a unit: _data and _dict
Unit(data, records) == [data |-> data, dict |-> records]

\* BenchRepo.__iadd__: self after the call
__iadd__(self, other) ==
  Unit(deep_merge(self.data, other.data), add(self.dict, other.dict))

deepcopy(x) == x

\* a variant that adds to self itself
add_without_copy(self, other) ==
  [self |-> __iadd__(self, other), other |-> other, new |-> __iadd__(self, other)]
\* BenchRepo.__add__: the operands after the call and the unit returned
__add__(self, other) ==
  [self |-> self, other |-> other, new |-> __iadd__(deepcopy(self), other)]

(***************************************************************************)
(* State                                                                   *)
(***************************************************************************)
VARIABLES
  config,           \* the configuration of the unit
  files,            \* the source files of the unit, in the order of the loop
  stored,           \* main: lastts[combined_name], the watermark of the ts file
  run,              \* the number of the run of main
  outcomes,         \* how the earlier runs ended
  pc,               \* position in get_metrics: "start", "loop", "done"
                    \* (returned True), "failed" (returned False), "raised"
  exc,              \* the exception that left get_metrics, "" if none
  lastts,           \* BenchRepo._lastts
  lastts_temp,      \* get_metrics: lastts_temp
  pos,              \* get_metrics: the next source of the loop
  dict,             \* BenchRepo._dict, keyed by the number n of '<name>_<n>'
  counter,          \* BenchRepo._counter
  raw,              \* benchmark_data['raw']
  graphparameters,  \* benchmark_data['graphparameters']
  metrics,          \* benchmark_data['metrics']
  locals,           \* get_metrics: used_metrics, plot_metrics, headers, calc_headers
  last,             \* the locals of the last iteration of the loop
  footer,           \* gen_footer_conf: valid_combinations, or the exception
  call,             \* a call of a function of the module on its own: the arguments
  returned,         \* what the call returned or raised
  units,            \* main: the units of the configuration, in the order of the loops
  unit,             \* main: the number of the next unit
  singleLML,        \* main: args.singleLML is given
  main_lastts,      \* main: lastts, the map combined name -> watermark
  tsfile,           \* the ts file: its map and how often it was written
  unique,           \* main: unique, the accumulated units
  benches,          \* main: what each unit of the loop so far came to
  main_pc           \* position in main: "start", "units", "end", "raised"

vars == <<config, files, stored, run, outcomes, pc, exc, lastts, lastts_temp, pos,
          dict, counter, raw, graphparameters, metrics, locals, last, footer, call, returned,
          units, unit, singleLML, main_lastts, tsfile, unique, benches, main_pc>>

\* the variables of main over several units
main_vars == <<units, unit, singleLML, main_lastts, tsfile, unique, benches, main_pc>>

\* no function is called on its own
NoCall   == [fn |-> "none"]
NoResult == [fn |-> "none"]

\* main over several units is not run
NoMain ==
  /\ units = <<>> /\ unit = 1 /\ singleLML = FALSE /\ main_lastts = <<>>
  /\ tsfile = [written |-> 0, lastts |-> <<>>] /\ unique = [data |-> <<>>, dict |-> <<>>]
  /\ benches = <<>> /\ main_pc = "start"

\* gen_footer_conf has not run
NoFooter == [exc |-> "not run", v |-> <<>>]

NoStep == Step("none", "", EmptyDict, EmptyDict, 0)
NoLocals ==
  [used_metrics |-> {}, plot_metrics |-> {}, headers |-> EmptyDict, calc_headers |-> EmptyDict]

\* BenchRepo.__init__ as main calls it
NewBenchRepo(wm) ==
  /\ lastts' = wm
  /\ dict' = EmptyDict
  /\ counter' = 0
  /\ raw' = <<>>
  /\ graphparameters' = EmptyDict
  /\ metrics' = EmptyDict
  /\ locals' = NoLocals
  /\ lastts_temp' = 0
  /\ pos' = 1
  /\ exc' = ""
  /\ last' = NoStep
  /\ footer' = NoFooter
  /\ pc' = "start"

\* a variant without the check: the first metrics_section[key] raises
metrics_check_missing(cfg) == IF undefined_metrics(cfg) # {} THEN "raised" ELSE "loop"
\* get_metrics: the check of the used metrics against the metrics section
metrics_check(cfg) == IF undefined_metrics(cfg) # {} THEN "failed" ELSE "loop"

\* get_metrics up to the loop over the sources
get_metrics_begin ==
  /\ UNCHANGED main_vars
  /\ pc = "start"
  /\ IF Len(files) = 0
       THEN pc' = "failed" /\ UNCHANGED <<graphparameters, metrics, locals>>
       ELSE /\ graphparameters' = [k \in trace_metrics(config) |-> {}]
            /\ IF metrics_check(config) # "loop"
                 THEN pc' = metrics_check(config) /\ UNCHANGED <<metrics, locals>>
                 ELSE /\ pc' = "loop"
                      /\ metrics' = metrics_types(config)
                      /\ locals' = [used_metrics |-> used_metrics(config),
                                    plot_metrics |-> plot_metrics(config),
                                    headers      |-> headers(config),
                                    calc_headers |-> calc_headers(config)]
  /\ lastts_temp' = 0
  /\ pos' = 1
  /\ UNCHANGED <<config, files, stored, run, outcomes, exc, lastts, dict, counter, raw,
                 last, footer, call, returned>>

\* get_metrics: what the body of the loop leaves in the unit
take_step(step) ==
  /\ last' = step
  /\ pc' = CASE step.outcome = "raised"   -> "raised"
             [] step.outcome = "rejected" -> "failed"
             [] OTHER                     -> "loop"
  /\ exc' = step.exc
  /\ pos' = IF step.outcome \in {"ok", "skipped"} THEN pos + 1 ELSE pos
  /\ raw' = raw \o step.appended
  /\ graphparameters' = step.graphparameters
  /\ metrics' = step.mtypes
  /\ lastts_temp' = step.lastts_temp
  /\ dict' = Merge(dict, new_records(config, step.kept, counter))
  /\ counter' = counter + Len(step.kept)

\* get_metrics: the body of the loop for the next source
process_source ==
  /\ UNCHANGED main_vars
  /\ pc = "loop"
  /\ pos <= Len(files)
  /\ take_step(source_step([cfg |-> config, loc |-> locals, file |-> files[pos],
                            wm |-> lastts, wmtemp |-> lastts_temp,
                            mtypes |-> metrics, gp |-> graphparameters]))
  /\ UNCHANGED <<config, files, stored, run, outcomes, lastts, locals, footer, call, returned>>

\* get_metrics after the loop: the new watermark, return True
get_metrics_end ==
  /\ UNCHANGED main_vars
  /\ pc = "loop"
  /\ pos > Len(files)
  /\ lastts' = lastts_temp
  /\ pc' = "done"
  /\ UNCHANGED <<config, files, stored, run, outcomes, exc, lastts_temp, pos,
                 dict, counter, raw, graphparameters, metrics, locals, last, footer,
                 call, returned>>

\* main, gen_configs: gen_footer_conf of a unit whose get_metrics returned True
gen_footer_conf ==
  /\ UNCHANGED main_vars
  /\ pc = "done"
  /\ footer = NoFooter
  /\ footer' = valid_combinations(graphparameters, metrics, raw)
  /\ UNCHANGED <<config, files, stored, run, outcomes, pc, exc, lastts, lastts_temp, pos,
                 dict, counter, raw, graphparameters, metrics, locals, last, call, returned>>

\* main: how the run of the unit ended; an exception of gen_footer_conf ends
\* main before the ts file is written
run_result(p, f) == IF p = "done" /\ f.exc # "" THEN "raised" ELSE p

\* a variant that never stores the watermark
next_stored_never(result, wm, old) == old
\* main: lastts[combined_name] = bench.lastts when get_metrics returned True
next_stored(result, wm, old) == IF result = "done" THEN wm ELSE old

\* main: the watermark of a unit that succeeded is stored, and the next run
\* of main over the same files reads it
main_next_run ==
  /\ UNCHANGED main_vars
  /\ pc \in {"done", "failed", "raised"}
  /\ pc = "done" => footer # NoFooter
  /\ run < MaxRuns
  /\ run' = run + 1
  /\ outcomes' = Append(outcomes, [result  |-> run_result(pc, footer),
                                   emitted |-> counter, from |-> stored])
  /\ stored' = next_stored(run_result(pc, footer), lastts, stored)
  /\ NewBenchRepo(stored')
  /\ UNCHANGED <<config, files, call, returned>>

Next ==
  get_metrics_begin \/ process_source \/ get_metrics_end \/ gen_footer_conf \/ main_next_run

(***************************************************************************)
(* get_metrics as one call: the unit it leaves for a configuration, the    *)
(* source files in the order of the loop and the watermark of the unit     *)
(***************************************************************************)
\* the unit between two iterations of the loop; records are the rows stored
\* in _dict in the order of the counter
Looping(pstate, e, records, rawdata, gp, mtypes, wmtemp) ==
  [pc |-> pstate, exc |-> e, records |-> records, raw |-> rawdata,
   graphparameters |-> gp, metrics |-> mtypes, lastts_temp |-> wmtemp]

\* get_metrics: the unit after one iteration of the loop
after_source(cfg, st, step) ==
  Looping(CASE step.outcome = "raised"   -> "raised"
            [] step.outcome = "rejected" -> "failed"
            [] OTHER                     -> "loop",
          step.exc,
          st.records \o [i \in 1..Len(step.kept) |->
                           Merge(step.kept[i], "id" :> VStr(record_id(cfg, step.kept[i])))],
          st.raw \o step.appended,
          step.graphparameters, step.mtypes, step.lastts_temp)

\* get_metrics: for source in sources
RECURSIVE loop_sources(_, _, _, _, _)
loop_sources(cfg, loc, sources, wm, st) ==
  IF st.pc # "loop" \/ Len(sources) = 0 THEN st
  ELSE loop_sources(cfg, loc, Tail(sources), wm,
         after_source(cfg, st,
           source_step([cfg |-> cfg, loc |-> loc, file |-> Head(sources),
                        wm |-> wm, wmtemp |-> st.lastts_temp,
                        mtypes |-> st.metrics, gp |-> st.graphparameters])))

\* get_metrics: self._lastts = lastts_temp; return True
returned_unit(st, wm) ==
  [result |-> IF st.pc = "loop" THEN "done" ELSE st.pc,
   exc |-> st.exc, records |-> st.records, raw |-> st.raw,
   graphparameters |-> st.graphparameters, metrics |-> st.metrics,
   lastts |-> IF st.pc = "loop" THEN st.lastts_temp ELSE wm]

\* BenchRepo.get_metrics: the unit after the call
get_metrics(cfg, sources, wm) ==
  IF Len(sources) = 0
    THEN returned_unit(Looping("failed", "", <<>>, <<>>, EmptyDict, EmptyDict, 0), wm)
  ELSE IF metrics_check(cfg) # "loop"
    THEN returned_unit(Looping(metrics_check(cfg), "", <<>>, <<>>, EmptyDict, EmptyDict, 0), wm)
    ELSE returned_unit(
      loop_sources(cfg,
                   [used_metrics |-> used_metrics(cfg), plot_metrics |-> plot_metrics(cfg),
                    headers |-> headers(cfg), calc_headers |-> calc_headers(cfg)],
                   sources, wm,
                   Looping("loop", "", <<>>, <<>>,
                           [k \in trace_metrics(cfg) |-> {}], metrics_types(cfg), 0)),
      wm)

(***************************************************************************)
(* Configurations and source files of the model                            *)
(***************************************************************************)
Plot(x, y, traces, annotations) ==
  [x |-> x, y |-> y, traces |-> traces, annotations |-> annotations]

T(c) == VStr(<<c>>)
TEmpty == VStr(<<>>)

pathA == <<"a", ".", "c", "s", "v">>
pathB == <<"b", ".", "c", "s", "v">>
pathC == <<"c", ".", "c", "s", "v">>
pathD == <<"d", ".", "c", "s", "v">>
pathJ == <<"j", ".", "j", "s", "o", "n">>
pathT == <<"t", ".", "t", "x", "t">>

\* a source file: its path, its '#' metadata lines, and the columns that its
\* header line lacks
SrcWithout(path, meta, lacking) == [path |-> path, meta |-> meta, lacking |-> lacking]
Src(path, meta) == SrcWithout(path, meta, {})
PlainCsv == {<<Src(pathA, EmptyDict), Src(pathB, EmptyDict), Src(pathC, EmptyDict),
               Src(pathD, EmptyDict)>>}

MetaCsv == {<<Src(pathA, "node" :> T("n")), Src(pathB, EmptyDict),
              Src(pathC, "node" :> T("n")), Src(pathD, EmptyDict)>>,
            <<Src(pathB, "node" :> T("n")), Src(pathA, EmptyDict),
              Src(pathD, "node" :> T("n")), Src(pathC, EmptyDict)>>}
\* files of which one has no 'value' column
HeaderlessFiles ==
  {<<SrcWithout(pathA, EmptyDict, {"value"}), Src(pathB, EmptyDict),
     SrcWithout(pathC, EmptyDict, {"value"}), Src(pathD, EmptyDict)>>,
   <<Src(pathB, EmptyDict), SrcWithout(pathA, EmptyDict, {"value"}),
     Src(pathD, EmptyDict), SrcWithout(pathC, EmptyDict, {"value"})>>}
MixedFiles == {<<Src(pathJ, EmptyDict), Src(pathT, EmptyDict), Src(pathA, EmptyDict),
                 Src(pathB, EmptyDict)>>,
               <<Src(pathT, EmptyDict), Src(pathA, EmptyDict), Src(pathJ, EmptyDict),
                 Src(pathB, EmptyDict)>>}

\* the texts of the epoch seconds 0 .. 3
TsTexts == {T("0"), T("1"), T("2"), T("3")}
\* a timestamp after every watermark of the model
TsLate == VStr(NatToStr(MaxTs + 1))

s10     == <<"1", "0">>
sPASSED == <<"P", "A", "S", "S", "E", "D">>

\* table: name; plot of value over ts with one trace per name
CfgWatermark ==
  [table   |-> <<"name">>,
   plots   |-> <<Plot("ts", "value", <<"name">>, <<>>)>>,
   metrics |-> ("ts" :> MetricDef(<<>>, "ts")) @@ ("name" :> MetricDef(<<>>, "str"))
               @@ ("value" :> MetricDef(<<"content">>, "float"))]

ScWatermark ==
  [cfg     |-> CfgWatermark,
   dom     |-> ("ts" :> TsTexts) @@ ("name" :> {T("a")}) @@ ("value" :> {T("5")}),
   layouts |-> PlainCsv,
   wms     |-> 0..MaxTs,
   short   |-> 1]

\* table: name, ts; plot of value with no x axis, so that 'ts' is no plot
\* metric and a 'ts' that cannot be read takes the default -1
CfgEpoch ==
  [table   |-> <<"name", "ts">>,
   plots   |-> <<Plot("", "value", <<"name">>, <<>>)>>,
   metrics |-> CfgWatermark.metrics]

ScEpoch ==
  [cfg     |-> CfgEpoch,
   dom     |-> ("ts" :> {VStr(sNone), T("0"), T("1")}) @@ ("name" :> {T("a")})
               @@ ("value" :> {T("5")}),
   layouts |-> PlainCsv,
   wms     |-> {0, 1},
   short   |-> 0]

\* the same with the rows named "b" excluded
CfgFilter ==
  [CfgWatermark EXCEPT !.metrics =
     ("name" :> [MetricDef(<<>>, "str") EXCEPT !.hasexclude = TRUE, !.exclude = <<{<<"b">>}>>])
       @@ CfgWatermark.metrics]

ScFilter ==
  [cfg     |-> CfgFilter,
   dom     |-> ("ts" :> {T("1"), T("2")}) @@ ("name" :> {T("a"), T("b")})
               @@ ("value" :> {T("5")}),
   layouts |-> PlainCsv,
   wms     |-> {0, 1},
   short   |-> 0]

\* table: name, value (int); plot of bw (float) over ts
CfgStatus ==
  [table   |-> <<"name", "value">>,
   plots   |-> <<Plot("ts", "bw", <<"name">>, <<>>)>>,
   metrics |-> ("ts" :> MetricDef(<<>>, "ts")) @@ ("name" :> MetricDef(<<>>, "str"))
               @@ ("value" :> MetricDef(<<>>, "int"))
               @@ ("bw" :> MetricDef(<<"content">>, "float"))]

ScStatus ==
  [cfg     |-> CfgStatus,
   dom     |-> ("ts" :> {TsLate}) @@ ("name" :> {T("a")})
               @@ ("value" :> {VStr(s10), TEmpty}) @@ ("bw" :> {T("5"), VStr(snan)}),
   layouts |-> PlainCsv,
   wms     |-> {0, 1},
   short   |-> 1]

\* table: name, ratio, the derived metric value/bw
CfgDerived ==
  [table   |-> <<"name", "ratio">>,
   plots   |-> <<Plot("ts", "", <<"name">>, <<>>)>>,
   metrics |-> ("ts" :> MetricDef(<<>>, "ts")) @@ ("name" :> MetricDef(<<>>, "str"))
               @@ ("ratio" :> MetricDef(<<"value", "/", "bw">>, "float"))]

ScDerived ==
  [cfg     |-> CfgDerived,
   dom     |-> ("ts" :> {TsLate}) @@ ("name" :> {T("a")})
               @@ ("value" :> {T("6"), T("x"), TEmpty}) @@ ("bw" :> {T("3")}),
   layouts |-> PlainCsv,
   wms     |-> {0, 1},
   short   |-> 1]

\* the derived metric value/bw over rows whose bw is 0
ScDivision ==
  [cfg     |-> CfgDerived,
   dom     |-> ("ts" :> {TsLate}) @@ ("name" :> {T("a")})
               @@ ("value" :> {T("6")}) @@ ("bw" :> {T("3"), T("0")}),
   layouts |-> PlainCsv,
   wms     |-> {0},
   short   |-> 1]

\* the derived metric value/rate over files that have no column rate
CfgMissingInput ==
  [CfgDerived EXCEPT !.metrics =
     ("ratio" :> MetricDef(<<"value", "/", "rate">>, "float")) @@ CfgDerived.metrics]

ScMissingInput ==
  [cfg     |-> CfgMissingInput,
   dom     |-> ("ts" :> {TsLate}) @@ ("name" :> {T("a")}) @@ ("value" :> {T("6")}),
   layouts |-> PlainCsv,
   wms     |-> {0},
   short   |-> 1]

\* the watermark configuration over rows whose ts is blank or no timestamp
ScBadTs ==
  [cfg     |-> CfgWatermark,
   dom     |-> ("ts" :> {TsLate, TEmpty, T("x")}) @@ ("name" :> {T("a")})
               @@ ("value" :> {T("5")}),
   layouts |-> PlainCsv,
   wms     |-> {0},
   short   |-> 1]

\* table: name, flag (bool, read from the content)
CfgBool ==
  [table   |-> <<"name", "flag">>,
   plots   |-> <<Plot("ts", "", <<"name">>, <<>>)>>,
   metrics |-> ("ts" :> MetricDef(<<>>, "ts")) @@ ("name" :> MetricDef(<<>>, "str"))
               @@ ("flag" :> MetricDef(<<>>, "bool"))]

ScBool ==
  [cfg     |-> CfgBool,
   dom     |-> ("ts" :> {TsLate}) @@ ("name" :> {T("a")})
               @@ ("flag" :> {VStr(sFalse), T("0"), TEmpty, T("y")}),
   layouts |-> PlainCsv,
   wms     |-> {0},
   short   |-> 1]

\* an annotation that the metrics section does not define
CfgUndefined ==
  [CfgWatermark EXCEPT !.plots = <<Plot("ts", "value", <<"name">>, <<"note">>)>>]

\* a table column, a y axis, a trace that the metrics section does not define
CfgUndefinedTable == [CfgWatermark EXCEPT !.table = <<"name", "note">>]
CfgUndefinedAxis  == [CfgWatermark EXCEPT !.plots = <<Plot("ts", "note", <<"name">>, <<>>)>>]
CfgUndefinedTrace ==
  [CfgWatermark EXCEPT !.plots = <<Plot("ts", "value", <<"name", "note">>, <<>>)>>]

ScUndefinedIn(cfg) ==
  [cfg     |-> cfg,
   dom     |-> ("ts" :> {T("1"), TsLate}) @@ ("name" :> {T("a")}) @@ ("value" :> {T("5")}),
   layouts |-> PlainCsv,
   wms     |-> {0, 1},
   short   |-> 1]

\* table: name, sys (from the file name), node (from the metadata)
CfgCommon ==
  [table   |-> <<"name", "sys", "node">>,
   plots   |-> <<Plot("ts", "value", <<"name">>, <<>>)>>,
   metrics |-> ("ts" :> MetricDef(<<>>, "ts")) @@ ("name" :> MetricDef(<<>>, "str"))
               @@ ("value" :> MetricDef(<<>>, "float"))
               @@ ("sys" :> [MetricDef(<<"filename">>, "str") EXCEPT
                               !.regex = (pathA :> <<"a">>) @@ (pathC :> <<"c">>)])
               @@ ("node" :> MetricDef(<<"metadata">>, "str"))]

ScCommon ==
  [cfg     |-> CfgCommon,
   dom     |-> ("ts" :> {T("1"), TsLate}) @@ ("name" :> {T("a")}) @@ ("value" :> {T("5")}),
   layouts |-> MetaCsv,
   wms     |-> {0, 1},
   short   |-> 1]

\* table: name, value, _status; the status is preset by a static value
CfgPreset ==
  [table   |-> <<"name", "value", "_status">>,
   plots   |-> <<Plot("ts", "", <<"name">>, <<>>)>>,
   metrics |-> ("ts" :> MetricDef(<<>>, "ts")) @@ ("name" :> MetricDef(<<>>, "str"))
               @@ ("value" :> MetricDef(<<>>, "int"))
               @@ ("_status" :> [MetricDef(<<"static">>, "str") EXCEPT
                                   !.hasvalue = TRUE, !.value = VStr(sPASSED)])]

ScPreset ==
  [cfg     |-> CfgPreset,
   dom     |-> ("ts" :> {TsLate}) @@ ("name" :> {T("a"), TEmpty})
               @@ ("value" :> {VStr(s10), VStr(sNone)}),
   layouts |-> PlainCsv,
   wms     |-> {0, 1},
   short   |-> 1]

\* table: name, size (float); traces name and size
CfgAxes ==
  [table   |-> <<"name", "size">>,
   plots   |-> <<Plot("ts", "", <<"name", "size">>, <<>>)>>,
   metrics |-> ("ts" :> MetricDef(<<>>, "ts")) @@ ("name" :> MetricDef(<<>>, "str"))
               @@ ("size" :> MetricDef(<<>>, "float"))]

ScAxes ==
  [cfg     |-> CfgAxes,
   dom     |-> ("ts" :> {TsLate}) @@ ("name" :> {T("a"), T("b")})
               @@ ("size" :> {T("0"), T("4"), T("8")}),
   layouts |-> PlainCsv,
   wms     |-> {0},
   short   |-> 1]

s12  == <<"1", "2">>
s120 == <<"1", "2", ".", "0">>

\* table: value (int), size (float), no trace
CfgIdent ==
  [table   |-> <<"value", "size">>,
   plots   |-> <<Plot("ts", "", <<>>, <<>>)>>,
   metrics |-> ("ts" :> MetricDef(<<>>, "ts")) @@ ("value" :> MetricDef(<<>>, "int"))
               @@ ("size" :> MetricDef(<<>>, "float"))]

ScIdent ==
  [cfg     |-> CfgIdent,
   dom     |-> ("ts" :> {TsLate}) @@ ("value" :> {VStr(s12)})
               @@ ("size" :> {VStr(s12), VStr(s120), TEmpty}),
   layouts |-> PlainCsv,
   wms     |-> {0},
   short   |-> 1]

\* the watermark configuration over JSON files and files of another extension
ScMixed ==
  [cfg     |-> CfgWatermark,
   dom     |-> ("ts" :> {T("1"), TsLate}) @@ ("name" :> {T("a")}) @@ ("value" :> {T("5")}),
   layouts |-> MixedFiles,
   wms     |-> {0, 1},
   short   |-> 1]

\* files of which one has no 'ts' in its metadata lines
TsMetaFiles ==
  {<<Src(pathA, "ts" :> VStr(sDay2)), Src(pathB, EmptyDict),
     Src(pathC, "ts" :> VStr(sDay2)), Src(pathD, EmptyDict)>>,
   <<Src(pathB, EmptyDict), Src(pathA, "ts" :> VStr(sDay2)),
     Src(pathD, EmptyDict), Src(pathC, "ts" :> VStr(sDay2))>>}
\* table: note (a text), _status; the status is preset as PASSED
CfgNote ==
  [table   |-> <<"note", "_status">>,
   plots   |-> <<Plot("ts", "value", <<"name">>, <<>>)>>,
   metrics |-> ("note" :> MetricDef(<<>>, "str"))
               @@ ("_status" :> [MetricDef(<<"static">>, "str") EXCEPT
                                   !.hasvalue = TRUE, !.value = VStr(sPASSED)])
               @@ CfgWatermark.metrics]

\* the same with the status preset as FAILED
CfgNoteFailed ==
  [CfgNote EXCEPT !.metrics =
     ("_status" :> [MetricDef(<<"static">>, "str") EXCEPT
                      !.hasvalue = TRUE, !.value = VStr(sFAILED)])
       @@ CfgNote.metrics]

ScNoteOf(cfg) ==
  [cfg     |-> cfg,
   dom     |-> ("ts" :> {TsLate}) @@ ("name" :> {T("a")}) @@ ("value" :> {T("5")})
               @@ ("note" :> {T("x"), TEmpty}),
   layouts |-> PlainCsv,
   wms     |-> {0},
   short   |-> 1]

\* one trace per node, and the node is read from the metadata
CfgNodeTrace ==
  [CfgCommon EXCEPT !.plots = <<Plot("ts", "value", <<"node">>, <<>>)>>]

ScNodeTrace ==
  [cfg     |-> CfgNodeTrace,
   dom     |-> ("ts" :> {TsLate}) @@ ("name" :> {T("a")}) @@ ("value" :> {T("5")}),
   layouts |-> MetaCsv,
   wms     |-> {0},
   short   |-> 1]

\* the timestamp is read from the metadata lines of the file
CfgTsMeta ==
  [CfgWatermark EXCEPT !.metrics =
     ("ts" :> MetricDef(<<"metadata">>, "ts")) @@ CfgWatermark.metrics]

ScTsMeta ==
  [cfg     |-> CfgTsMeta,
   dom     |-> ("name" :> {T("a")}) @@ ("value" :> {T("5")}),
   layouts |-> TsMetaFiles,
   wms     |-> {0, 1},
   short   |-> 1]

\* files of which one lacks the required header 'value'
ScHeaderless ==
  [cfg     |-> CfgWatermark,
   dom     |-> ("ts" :> {TsLate}) @@ ("name" :> {T("a")}) @@ ("value" :> {T("5")}),
   layouts |-> HeaderlessFiles,
   wms     |-> {0, 1},
   short   |-> 1]

Scenarios ==
  {ScWatermark, ScEpoch, ScFilter, ScStatus, ScDerived, ScCommon, ScPreset, ScMixed,
   ScAxes, ScIdent, ScDivision, ScMissingInput, ScBadTs, ScBool, ScHeaderless, ScTsMeta,
   ScNodeTrace, ScNoteOf(CfgNote), ScNoteOf(CfgNoteFailed)}
    \cup {ScUndefinedIn(cfg) :
            cfg \in {CfgUndefined, CfgUndefinedTable, CfgUndefinedAxis, CfgUndefinedTrace}}

\* the rows a scenario allows: every header takes a value of its domain
RowsOf(dom) ==
  {r \in [DOMAIN dom -> UNION {dom[h] : h \in DOMAIN dom}] : \A h \in DOMAIN dom : r[h] \in dom[h]}

\* the JSON document that holds the rows as the results of one job
JsonDoc(rows) == [pipeline |-> EmptyDict, jobs |-> <<("results" :> rows)>>]

\* the rows as a file without the columns 'lacking' holds them
Columns(rows, lacking) ==
  [i \in 1..Len(rows) |-> [h \in DOMAIN rows[i] \ lacking |-> rows[i][h]]]

FileOf(path, meta, rows) ==
  [path |-> path, meta |-> meta, rows |-> rows, doc |-> JsonDoc(rows)]

SourceFile(src, rows) == FileOf(src.path, src.meta, Columns(rows, src.lacking))

\* the ways to cut a sequence of rows into n files
Cuts(n, len) ==
  {c \in [0..n -> 0..len] : c[0] = 0 /\ c[n] = len /\ \A i \in 1..n : c[i - 1] <= c[i]}

\* the sequences of rows of a scenario: at most MaxRows rows, less in the
\* scenarios marked short
RowSeqs(sc) == UNION {[1..k -> RowsOf(sc.dom)] : k \in 0..(MaxRows - sc.short)}

\* the files of a scenario: at most MaxFiles files, at most MaxRows rows
FilesOf(sc) ==
  UNION {UNION {UNION {
      {[i \in 1..n |-> SourceFile(lay[i], SubSeq(rs, c[i - 1] + 1, c[i]))] : c \in Cuts(n, Len(rs))}
        : lay \in sc.layouts} : rs \in RowSeqs(sc)} : n \in 1..MaxFiles}
    \cup {<<>>}

Init ==
  /\ NoMain
  /\ \E sc \in Scenarios :
       /\ config = sc.cfg
       /\ files \in FilesOf(sc)
       /\ stored \in sc.wms
  /\ run = 1
  /\ outcomes = <<>>
  /\ lastts = stored
  /\ dict = EmptyDict
  /\ counter = 0
  /\ raw = <<>>
  /\ graphparameters = EmptyDict
  /\ metrics = EmptyDict
  /\ locals = NoLocals
  /\ lastts_temp = 0
  /\ pos = 1
  /\ exc = ""
  /\ last = NoStep
  /\ footer = NoFooter
  /\ pc = "start"
  /\ call = NoCall
  /\ returned = NoResult

Spec == Init /\ [][Next]_vars

(***************************************************************************)
(* The functions of the module called on their own: the arguments of a     *)
(* call are drawn from the sets below, the unit of main stays as           *)
(* constructed.                                                            *)
(***************************************************************************)
UnitNames == {<<"a">>, <<"b">>, <<"c">>}

\* the record of a unit: its name, and a size that is no text for one of them
UnitRecord(n) ==
  IF n = <<"b">> THEN ("name" :> VStr(n)) @@ ("size" :> VInt(4)) ELSE ("name" :> VStr(n))

\* the units in an order, each at most once
UnitOrders ==
  {q \in UNION {[1..n -> UnitNames] : n \in 0..Cardinality(UnitNames)} :
     \A i \in DOMAIN q : \A j \in DOMAIN q : q[i] = q[j] => i = j}

\* rules of every shape
Rules ==
  {NoRule,
   Pat({<<"a">>}),
   PatList(<<Pat({<<"a">>}), Pat({<<"b">>})>>),
   PatList(<<PatDict("name" :> Pat({<<"a">>}))>>),
   PatList(<<Pat({<<"c">>}), PatDict("name" :> PatList(<<Pat({<<"a">>})>>))>>),
   PatDict("name" :> PatList(<<Pat({<<"a">>}), Pat({<<"c">>})>>)),
   PatDict("name" :> Pat({<<"b">>})),
   PatDict("size" :> Pat({<<"4">>})),
   PatList(<<>>)}

PatternCalls ==
  {[fn |-> "apply_pattern", units |-> q, exclude |-> e, include |-> i] :
     q \in UnitOrders, e \in Rules, i \in Rules}

\* the same units as a set of names, as a list of records and as a mapping
AsSet(q)  == Elements("set", Range(q))
AsList(q) == Elements("list", [i \in 1..Len(q) |-> UnitRecord(q[i])])
AsDict(q) == Elements("dict", [n \in Range(q) |-> UnitRecord(n)])

\* apply_pattern on the three containers of the same units
call_apply_pattern ==
  /\ UNCHANGED main_vars
  /\ call.fn = "apply_pattern"
  /\ returned = NoResult
  /\ returned' = [fn   |-> "apply_pattern",
                set  |-> apply_pattern(AsSet(call.units), call.exclude, call.include),
                list |-> apply_pattern(AsList(call.units), call.exclude, call.include),
                dict |-> apply_pattern(AsDict(call.units), call.exclude, call.include)]
  /\ UNCHANGED <<config, files, stored, run, outcomes, pc, exc, lastts, lastts_temp, pos,
                 dict, counter, raw, graphparameters, metrics, locals, last, footer, call>>

\* the _data of a unit 'x' or 'y' after get_metrics
RawRow(n) == ("ts" :> VInt(n))
UnitData(name, n, path) ==
  name :> DDict(("raw" :> DList(<<RawRow(n)>>)) @@ ("sources" :> DSet({path}))
                @@ ("metrics" :> DDict("ts" :> DVal(VStr(<<"t", "s">>))))
                @@ ("lastrun" :> DVal(VInt(n))))

UnitDatas ==
  {EmptyDict,
   UnitData("x", 1, pathA),
   UnitData("x", 2, pathB),
   UnitData("y", 2, pathB),
   "x" :> DDict(("raw" :> DVal(VNone)) @@ ("metrics" :> DDict("value" :> DVal(VStr(<<"i", "n", "t">>)))))}

\* the _dict of a unit: records under '<name>_<n>'
UnitRecords ==
  {EmptyDict,
   "x_0" :> (("ts" :> VInt(1)) @@ ("id" :> T("a"))),
   "x_0" :> (("ts" :> VInt(2)) @@ ("node" :> T("n"))),
   "y_0" :> (("ts" :> VInt(2)) @@ ("id" :> T("b"))),
   ("x_0" :> (("ts" :> VInt(3)) @@ ("id" :> T("c")))) @@ ("x_1" :> (("ts" :> VInt(4)) @@ ("id" :> T("d"))))}

Units == {Unit(d, r) : d \in UnitDatas, r \in UnitRecords}

AddCalls == {[fn |-> "__add__", a |-> a, b |-> b] : a \in Units, b \in Units}

\* a + b
call_add ==
  /\ UNCHANGED main_vars
  /\ call.fn = "__add__"
  /\ returned = NoResult
  /\ returned' = [fn |-> "__add__", v |-> __add__(call.a, call.b)]
  /\ UNCHANGED <<config, files, stored, run, outcomes, pc, exc, lastts, lastts_temp, pos,
                 dict, counter, raw, graphparameters, metrics, locals, last, footer, call>>

\* JSON documents: a pipeline, at most two jobs, at most two results each
Pipelines ==
  {EmptyDict,
   ("commit" :> T("p")) @@ ("node" :> T("p")),
   ("commit" :> T("p")) @@ ("results" :> <<>>)}
JsonResults ==
  {"value" :> T("r"),
   ("value" :> T("r")) @@ ("node" :> T("r")),
   ("value" :> T("s")) @@ ("node" :> T("r")) @@ ("commit" :> T("r"))}
UpToTwo(S) == {<<>>} \cup {<<x>> : x \in S} \cup {<<x, y>> : x \in S, y \in S}
JsonJobs ==
  {"node" :> T("j")}
    \cup {"results" :> rs : rs \in UpToTwo(JsonResults)}
    \cup {("node" :> T("j")) @@ ("results" :> rs) : rs \in UpToTwo(JsonResults)}
JsonDocs == {[pipeline |-> p, jobs |-> js] : p \in Pipelines, js \in UpToTwo(JsonJobs)}

FlattenCalls == {[fn |-> "flatten_json", json_data |-> d] : d \in JsonDocs}

call_flatten_json ==
  /\ UNCHANGED main_vars
  /\ call.fn = "flatten_json"
  /\ returned = NoResult
  /\ returned' = [fn |-> "flatten_json", v |-> flatten_json_call(call.json_data)]
  /\ UNCHANGED <<config, files, stored, run, outcomes, pc, exc, lastts, lastts_temp, pos,
                 dict, counter, raw, graphparameters, metrics, locals, last, footer, call>>

\* the scenarios whose files get_metrics is called on in every order
OrderScenarios == {ScMixed, ScCommon, ScTsMeta, ScStatus, ScEpoch}

OrderCalls ==
  UNION {{[fn |-> "get_metrics", config |-> sc.cfg, sources |-> fs, lastts |-> wm] :
            fs \in FilesOf(sc), wm \in sc.wms} : sc \in OrderScenarios}

\* the sources in the order p, a permutation of their positions
InOrder(sources, p) == [i \in 1..Len(sources) |-> sources[p[i]]]

\* get_metrics of a unit with the watermark lastts whose set of sources is
\* iterated in every order
call_get_metrics ==
  /\ UNCHANGED main_vars
  /\ call.fn = "get_metrics"
  /\ returned = NoResult
  /\ returned' = [fn |-> "get_metrics",
                  v |-> [p \in Permutations(1..Len(call.sources)) |->
                           get_metrics(call.config, InOrder(call.sources, p), call.lastts)]]
  /\ UNCHANGED <<config, files, stored, run, outcomes, pc, exc, lastts, lastts_temp, pos,
                 dict, counter, raw, graphparameters, metrics, locals, last, footer, call>>

Calls == PatternCalls \cup AddCalls \cup FlattenCalls \cup OrderCalls

InitCalls ==
  /\ NoMain
  /\ call \in Calls
  /\ returned = NoResult
  /\ config = CfgWatermark
  /\ files = <<>>
  /\ stored = 0
  /\ run = 1
  /\ outcomes = <<>>
  /\ lastts = stored
  /\ dict = EmptyDict
  /\ counter = 0
  /\ raw = <<>>
  /\ graphparameters = EmptyDict
  /\ metrics = EmptyDict
  /\ locals = NoLocals
  /\ lastts_temp = 0
  /\ pos = 1
  /\ exc = ""
  /\ last = NoStep
  /\ footer = NoFooter
  /\ pc = "start"

NextCalls == call_apply_pattern \/ call_add \/ call_flatten_json \/ call_get_metrics

SpecCalls == InitCalls /\ [][NextCalls]_vars

(***************************************************************************)
(* main over the units (a repository, or a tab of a repository) of a       *)
(* configuration.  A unit of the configuration is the record of its name,  *)
(* its tab (empty without tabs), its configuration, its source files,      *)
(* whether 'sources' are configured and whether the repository can be      *)
(* cloned or updated.                                                      *)
(***************************************************************************)
MaxUnits == 2

\* str.replace(" ", "_")
replace_space(s) == [i \in 1..Len(s) |-> IF s[i] = " " THEN "_" ELSE s[i]]

\* get_metrics: combined_name, the prefix of the keys of _dict
combined_name(name, tab) ==
  replace_space(name) \o (IF tab # <<>> THEN <<"_">> \o replace_space(tab) ELSE <<>>)

\* main: combined_name, the key of the unit in the ts file
main_combined_name(name, tab) == IF tab # <<>> THEN name \o <<":">> \o tab ELSE name

\* get_metrics: f"{combined_name}_{next(self._counter)}"
record_key(name, tab, n) == combined_name(name, tab) \o <<"_">> \o NatToStr(n)

\* get_metrics: _dict, the records under their keys
keyed_records(name, tab, records) ==
  [k \in {record_key(name, tab, n) : n \in 0..(Len(records) - 1)} |->
     records[1 + CHOOSE n \in 0..(Len(records) - 1) : record_key(name, tab, n) = k]]

\* BenchRepo.__init__: _data of a unit, with the raw rows get_metrics left
bench_data(name, tab, rawdata) ==
  IF tab # <<>>
    THEN name :> DDict(tab :> DDict("raw" :> DList(rawdata)))
    ELSE name :> DDict("raw" :> DList(rawdata))

\* main: lastts[combined_name] if combined_name in lastts else 0
lastts_of(map, key) == IF key \in DOMAIN map THEN map[key] ELSE 0

\* a unit that main leaves before get_metrics
not_collected(why, wm) ==
  [result |-> why, exc |-> "", records |-> <<>>, raw |-> <<>>,
   graphparameters |-> EmptyDict, metrics |-> EmptyDict, lastts |-> wm, footer |-> NoFooter]

\* main: gen_configs of a unit whose get_metrics returned True
with_footer(bench) ==
  [result |-> bench.result, exc |-> bench.exc, records |-> bench.records, raw |-> bench.raw,
   graphparameters |-> bench.graphparameters, metrics |-> bench.metrics,
   lastts |-> bench.lastts,
   footer |-> IF bench.result = "done"
                THEN valid_combinations(bench.graphparameters, bench.metrics, bench.raw)
                ELSE NoFooter]

\* main: the body of the loop up to get_metrics
collect(u, wm) ==
  IF ~u.sources THEN not_collected("skipped", wm)
  ELSE IF ~u.cloned THEN not_collected("not updated", wm)
  ELSE with_footer(get_metrics(u.config, u.files, wm))

\* main: an exception of get_metrics, or of gen_configs of the unit, leaves main
unit_raises(bench, single) ==
  \/ bench.result = "raised"
  \/ bench.result = "done" /\ ~single /\ bench.footer.exc # ""

\* main: what the body of the loop leaves for one unit
after_unit(u, wm, bench) ==
  /\ benches' = Append(benches,
                  [key |-> main_combined_name(u.name, u.tab), from |-> wm,
                   result |-> bench.result, entries |-> Len(bench.records),
                   keys |-> Cardinality(DOMAIN keyed_records(u.name, u.tab, bench.records)),
                   lastts |-> bench.lastts, footer |-> bench.footer.exc])
  /\ main_lastts' = IF bench.result = "done"
                      THEN (main_combined_name(u.name, u.tab) :> bench.lastts) @@ main_lastts
                      ELSE main_lastts
  /\ unique' = IF bench.result = "done" /\ singleLML
                 THEN __add__(unique,
                              Unit(bench_data(u.name, u.tab, bench.raw),
                                   keyed_records(u.name, u.tab, bench.records))).new
                 ELSE unique
  /\ main_pc' = IF unit_raises(bench, singleLML) THEN "raised" ELSE "units"
  /\ unit' = unit + 1

\* main: the ts file is read, unique = BenchRepo()
main_begin ==
  /\ main_pc = "start"
  /\ Len(units) > 0
  /\ main_lastts' = tsfile.lastts
  /\ unique' = Unit(EmptyDict, EmptyDict)
  /\ main_pc' = "units"
  /\ UNCHANGED <<units, unit, singleLML, tsfile, benches>>
  /\ UNCHANGED <<config, files, stored, run, outcomes, pc, exc, lastts, lastts_temp, pos,
                 dict, counter, raw, graphparameters, metrics, locals, last, footer,
                 call, returned>>

\* main: the body of the loops over the repositories and their tabs
main_unit ==
  /\ main_pc = "units"
  /\ unit <= Len(units)
  /\ after_unit(units[unit],
                lastts_of(main_lastts, main_combined_name(units[unit].name, units[unit].tab)),
                collect(units[unit],
                        lastts_of(main_lastts,
                                  main_combined_name(units[unit].name, units[unit].tab))))
  /\ UNCHANGED <<units, singleLML, tsfile>>
  /\ UNCHANGED <<config, files, stored, run, outcomes, pc, exc, lastts, lastts_temp, pos,
                 dict, counter, raw, graphparameters, metrics, locals, last, footer,
                 call, returned>>

\* main: gen_configs of unique raises when the footer of one of its units does
unique_raises == \E i \in 1..Len(benches) : benches[i].result = "done" /\ benches[i].footer # ""

\* main after the loops: the configuration of unique, then the ts file
main_end ==
  /\ main_pc = "units"
  /\ unit > Len(units)
  /\ IF singleLML /\ unique_raises
       THEN main_pc' = "raised" /\ UNCHANGED tsfile
       ELSE /\ main_pc' = "end"
            /\ tsfile' = [written |-> tsfile.written + 1, lastts |-> main_lastts]
  /\ UNCHANGED <<units, unit, singleLML, main_lastts, unique, benches>>
  /\ UNCHANGED <<config, files, stored, run, outcomes, pc, exc, lastts, lastts_temp, pos,
                 dict, counter, raw, graphparameters, metrics, locals, last, footer,
                 call, returned>>

NextMain == main_begin \/ main_unit \/ main_end

\* the names and tabs of the units: 'a_b' without tabs, tab 'b' of 'a', 'c'
UnitKeys ==
  {[name |-> <<"a", "_", "b">>, tab |-> <<>>],
   [name |-> <<"a">>, tab |-> <<"b">>],
   [name |-> <<"c">>, tab |-> <<>>]}

RowAt(ts, name) == ("ts" :> ts) @@ ("name" :> name) @@ ("value" :> T("5"))

\* what a unit collects: one record; a record in each of two files; a file
\* without 'ts'; a file without its trace dimension; names that the footer
\* cannot sort
UnitSources ==
  {[config |-> CfgWatermark,
    files  |-> <<FileOf(pathA, EmptyDict, <<RowAt(TsLate, T("a"))>>)>>],
   [config |-> CfgWatermark,
    files  |-> <<FileOf(pathA, EmptyDict, <<RowAt(T("1"), T("a"))>>),
                 FileOf(pathB, EmptyDict, <<RowAt(TsLate, T("a"))>>)>>],
   [config |-> CfgTsMeta,
    files  |-> <<FileOf(pathB, EmptyDict, <<("name" :> T("a")) @@ ("value" :> T("5"))>>)>>],
   [config |-> CfgNodeTrace,
    files  |-> <<FileOf(pathB, EmptyDict, <<RowAt(TsLate, T("a"))>>)>>],
   [config |-> CfgPreset,
    files  |-> <<FileOf(pathA, EmptyDict, <<RowAt(TsLate, T("a")), RowAt(TsLate, TEmpty)>>)>>]}

ConfiguredUnit(k, src, sources, cloned) ==
  [name |-> k.name, tab |-> k.tab, config |-> src.config, files |-> src.files,
   sources |-> sources, cloned |-> cloned]

\* the units of the model: every source collected, and the first also as a
\* unit without 'sources' and as a unit whose repository cannot be updated
ConfiguredUnits ==
  {ConfiguredUnit(k, src, TRUE, TRUE) : k \in UnitKeys, src \in UnitSources}
    \cup {ConfiguredUnit(k, src, ok[1], ok[2]) :
            k \in UnitKeys,
            src \in {x \in UnitSources : x.config = CfgWatermark /\ Len(x.files) = 1},
            ok \in {<<FALSE, TRUE>>, <<TRUE, FALSE>>}}

\* at most MaxUnits units of different name and tab
UnitSeqs ==
  UNION {{us \in [1..n -> ConfiguredUnits] :
            \A i \in 1..n : \A j \in 1..n :
              i # j => <<us[i].name, us[i].tab>> # <<us[j].name, us[j].tab>>}
           : n \in 1..MaxUnits}

\* the ts file before the run: empty, or the watermark 1 for every unit
StoredMaps(us) ==
  {<<>>, [k \in {main_combined_name(us[i].name, us[i].tab) : i \in 1..Len(us)} |-> 1]}

InitMain ==
  /\ units \in UnitSeqs
  /\ singleLML \in BOOLEAN
  /\ tsfile \in {[written |-> 0, lastts |-> m] : m \in StoredMaps(units)}
  /\ unit = 1
  /\ main_lastts = <<>>
  /\ unique = [data |-> <<>>, dict |-> <<>>]
  /\ benches = <<>>
  /\ main_pc = "start"
  /\ call = NoCall
  /\ returned = NoResult
  /\ config = CfgWatermark
  /\ files = <<>>
  /\ stored = 0
  /\ run = 1
  /\ outcomes = <<>>
  /\ lastts = stored
  /\ dict = EmptyDict
  /\ counter = 0
  /\ raw = <<>>
  /\ graphparameters = EmptyDict
  /\ metrics = EmptyDict
  /\ locals = NoLocals
  /\ lastts_temp = 0
  /\ pos = 1
  /\ exc = ""
  /\ last = NoStep
  /\ footer = NoFooter
  /\ pc = "start"

SpecMain == InitMain /\ [][NextMain]_vars

(***************************************************************************)
(* Properties                                                              *)
(***************************************************************************)
TsOf(rows) == {rows[i]["ts"].n : i \in 1..Len(rows)}
EmittedTs  == {dict[n]["ts"].n : n \in DOMAIN dict}
IsPrefix(a, b) == Len(a) <= Len(b) /\ SubSeq(b, 1, Len(a)) = a

\* the file the last iteration of the loop read
LastFile == files[IF last.outcome \in {"ok", "skipped"} THEN pos - 1 ELSE pos]

\* C1 as stated: for every starting watermark W >= 0, no record of _dict has ts <= W
C1_NoRecordAtOrBeforeAnyWatermark ==
  \A n \in DOMAIN dict : dict[n]["ts"].n > stored

\* C1: for every starting watermark W > 0 of a unit and every set of source
\* rows, no record emitted into _dict has ts <= W (with W = 0 no cut is made)
C1_NoRecordAtOrBeforeWatermark ==
  stored > 0 => \A n \in DOMAIN dict : dict[n]["ts"].n > stored

C1_CutMade ==
  /\ pc = "done"
  /\ stored > 0
  /\ DOMAIN dict # {}
  /\ \E i \in 1..Len(raw) : raw[i]["ts"].n <= stored

\* one file with three rows, ts in {T-1, T, T+1}
RowsAround(t) ==
  /\ Len(files) = 1
  /\ Len(files[1].rows) = 3
  /\ Len(raw) = 3
  /\ TsOf(raw) = {t - 1, t, t + 1}

OnlyNextEmitted(t) ==
  /\ Cardinality(DOMAIN dict) = 1
  /\ EmittedTs = {t + 1}
  /\ lastts = t + 1

\* C2: after a successful get_metrics the watermark is the maximum of the
\* previous watermark and the ts of every emitted row, so it never decreases;
\* with watermark T and one file with rows ts in {T-1, T, T+1} exactly the
\* row ts = T+1 is emitted and the new watermark is T+1
C2_WatermarkAdvance ==
  pc = "done" =>
    /\ lastts = Max(EmittedTs \cup {stored})
    /\ lastts >= stored
    /\ RowsAround(stored) => OnlyNextEmitted(stored)

AfterSuccessfulRun == run > 1 /\ outcomes[run - 1].result = "done"

SecondRunEmitsNothing ==
  /\ DOMAIN dict = {}
  /\ pc \notin {"failed", "raised"}
  /\ pc = "done" => lastts = stored

\* C3 as stated: whatever watermark the first run produced
C3_IdempotentFromAnyWatermark == AfterSuccessfulRun => SecondRunEmitsNothing

\* C3: a run on the unchanged files of a successful run, with the watermark
\* W > 0 that run produced, emits no record and leaves the watermark unchanged
C3_Idempotent == (AfterSuccessfulRun /\ stored > 0) => SecondRunEmitsNothing

C3_RerunAfterEmission ==
  /\ AfterSuccessfulRun
  /\ outcomes[run - 1].emitted > 0
  /\ stored > 0
  /\ pc = "done"
  /\ Len(raw) > 0
  /\ lastts = stored

\* C4: every row of a processed file that passed the include/exclude
\* filters, whatever its ts, is appended to raw and adds its trace values to
\* graphparameters, and raw keeps its earlier contents as a prefix
C4_RawKeepsEveryRow ==
  [][run' = run =>
       /\ IsPrefix(raw, raw')
       /\ (pc = "loop" /\ pos' = pos + 1 /\ last'.outcome = "ok") =>
            /\ raw' = raw \o last'.valid
            /\ Len(last'.valid) = Len(last'.merged)
            /\ \A p \in DOMAIN graphparameters :
                 graphparameters[p] \cup {last'.valid[i][p] : i \in 1..Len(last'.valid)}
                   \subseteq graphparameters'[p]]_vars

C4_RowsCutButKept ==
  /\ last.outcome = "ok"
  /\ stored > 0
  /\ pos > 2
  /\ Len(last.kept) < Len(last.valid)
  /\ 0 < Len(last.valid)
  /\ Len(last.valid) < Len(LastFile.rows)
  /\ Len(last.valid) < Len(raw)
  /\ Len(raw) > Cardinality(DOMAIN dict)

\* C5: when a metric the table, a plot axis, a trace or an annotation uses
\* has no definition, get_metrics returns failure before it reads a file: no
\* record is emitted, raw is empty and the watermark is unchanged
C5_UndefinedMetricRejected ==
  undefined_metrics(config) # {} =>
    /\ pc \in {"start", "failed"}
    /\ DOMAIN dict = {}
    /\ raw = <<>>
    /\ lastts = stored
    /\ pos = 1
    /\ last = NoStep

C5_RejectedWithRows ==
  /\ undefined_metrics(config) # {}
  /\ pc = "failed"
  /\ Len(files) > 0
  /\ Len(files[1].rows) > 0

Unsafe(text) == \E i \in 1..Len(text) : text[i] \notin AllowedChars

\* the derived metrics of a row whose substituted formula has an unsafe character
UnsafeCalcs(line) ==
  {k \in DOMAIN locals.calc_headers :
     /\ substitute(locals.calc_headers[k], line).exc = ""
     /\ Unsafe(substitute(locals.calc_headers[k], line).v)}

\* C6: when the substituted formula of a derived metric has a character
\* outside digits, + - * / ( ) . and space, the metric takes the default of
\* its type in that row and get_metrics goes on with the other rows and files
C6_UnsafeFormulaGivesDefault ==
  \A k \in 1..Len(files) :
    (/\ pc \in {"loop", "done", "raised"}
     /\ IsCsv(files[k])
     /\ \E i \in 1..Len(files[k].rows) : UnsafeCalcs(files[k].rows[i]) # {})
    =>
      /\ ~(pc = "raised" /\ pos = k)
      /\ (pos = k + 1 /\ last.outcome = "ok" /\ Len(last.merged) = Len(files[k].rows)) =>
           \A i \in 1..Len(files[k].rows) : \A m \in UnsafeCalcs(files[k].rows[i]) :
             last.merged[i][m] = default_get(config.metrics[m].type)

\* the documented defaults
DefaultOf ==
  ("int" :> VInt(0 - 1)) @@ ("float" :> VInt(0)) @@ ("bool" :> VNone)
    @@ ("date" :> VStr(<<"-">>)) @@ ("ts" :> VInt(0 - 1))

StatusOf(row) == row["_status"]

\* the rows of the last file, read as they are: no row skipped or filtered
ReadInOrder == last.outcome = "ok" /\ Len(last.valid) = Len(LastFile.rows)

\* C7: in every row, a used metric that is no plot metric, whose type is not
\* str and whose value is empty takes the default of its type and the row is
\* FAILED; a row with no empty metric and no preset status is SUCCESSFUL;
\* with int value: "10" is SUCCESSFUL, "" gets -1 and FAILED
C7_NonPlotMetricDefaulted ==
  \A i \in 1..Len(last.valid) :
    /\ \A m \in (locals.used_metrics \ locals.plot_metrics) \cap DOMAIN last.merged[i] :
         (type_get(last.mtypes, m) \in DOMAIN DefaultOf /\ is_empty(last.merged[i][m])) =>
           /\ last.valid[i][m] = DefaultOf[type_get(last.mtypes, m)]
           /\ StatusOf(last.valid[i]) = VStr(sFAILED)
    /\ ((\A m \in locals.used_metrics \cap DOMAIN last.merged[i] : ~is_empty(last.merged[i][m]))
          /\ "_status" \notin DOMAIN last.merged[i]) =>
           StatusOf(last.valid[i]) = VStr(sSUCCESSFUL)
    /\ (config = CfgStatus /\ ReadInOrder) =>
         /\ LastFile.rows[i]["value"] = TEmpty =>
              (last.valid[i]["value"] = VInt(0 - 1) /\ StatusOf(last.valid[i]) = VStr(sFAILED))
         /\ (LastFile.rows[i]["value"] = VStr(s10) /\ LastFile.rows[i]["bw"] = T("5")) =>
              (last.valid[i]["value"] = VInt(10) /\ StatusOf(last.valid[i]) = VStr(sSUCCESSFUL))

C7_DefaultedAndSuccessfulRows ==
  /\ config = CfgStatus
  /\ ReadInOrder
  /\ \E n \in DOMAIN dict :
       dict[n]["value"] = VInt(0 - 1) /\ StatusOf(dict[n]) = VStr(sFAILED)
  /\ \E n \in DOMAIN dict :
       dict[n]["value"] = VInt(10) /\ StatusOf(dict[n]) = VStr(sSUCCESSFUL)

\* C8: in every row, an empty metric that is a plot x axis, y axis or trace
\* becomes the null marker, not the default of its type, and the row is
\* FAILED, whatever the type of the metric
C8_PlotMetricNulled ==
  \A i \in 1..Len(last.valid) :
    /\ \A m \in locals.plot_metrics \cap DOMAIN last.merged[i] :
         is_empty(last.merged[i][m]) =>
           (last.valid[i][m] = VNone /\ StatusOf(last.valid[i]) = VStr(sFAILED))
    /\ (config = CfgStatus /\ ReadInOrder /\ LastFile.rows[i]["bw"] = VStr(snan)) =>
         (last.valid[i]["bw"] = VNone /\ StatusOf(last.valid[i]) = VStr(sFAILED))
    /\ (config = CfgPreset /\ ReadInOrder /\ LastFile.rows[i]["name"] = TEmpty) =>
         (last.valid[i]["name"] = VNone /\ StatusOf(last.valid[i]) = VStr(sFAILED))

C8_NullFloatEmitted ==
  /\ config = CfgStatus
  /\ pc = "done"
  /\ \E n \in DOMAIN dict : dict[n]["bw"] = VNone /\ StatusOf(dict[n]) = VStr(sFAILED)
  /\ \E n \in DOMAIN dict : dict[n]["bw"] = VFloat(5)

\* C9: all records emitted for one unit have the same key set, which holds
\* every used metric; a metric that could not be obtained for a file is
\* present with a default, never absent
C9_UniformKeys ==
  \A n \in DOMAIN dict :
    /\ locals.used_metrics \subseteq DOMAIN dict[n]
    /\ \A k \in DOMAIN dict : DOMAIN dict[k] = DOMAIN dict[n]

\* the status the configuration presets through a static value
PresetStatus ==
  IF /\ "_status" \in DOMAIN config.metrics
     /\ "_status" \in used_metrics(config)
     /\ FromStatic(config.metrics["_status"])
     /\ config.metrics["_status"].hasvalue
    THEN {config.metrics["_status"].value}
    ELSE {}

HasReservedKeys(rec) == {"ts", "id", "_status"} \subseteq DOMAIN rec

\* C10 as stated: the status is SUCCESSFUL or FAILED even when it was preset
C10_StatusOneOfTwoAlways ==
  \A n \in DOMAIN dict :
    HasReservedKeys(dict[n]) /\ StatusOf(dict[n]) \in {VStr(sSUCCESSFUL), VStr(sFAILED)}

\* C10: every emitted record has the keys ts, id and _status; its _status is
\* SUCCESSFUL or FAILED when no status was preset, and the preset status or
\* FAILED when one was preset through static data
C10_ReservedKeys ==
  \A n \in DOMAIN dict :
    /\ HasReservedKeys(dict[n])
    /\ StatusOf(dict[n]) \in
         IF PresetStatus = {} THEN {VStr(sSUCCESSFUL), VStr(sFAILED)}
                              ELSE PresetStatus \cup {VStr(sFAILED)}

C10_PresetKeptAndFailed ==
  /\ PresetStatus # {}
  /\ \E n \in DOMAIN dict : StatusOf(dict[n]) \in PresetStatus
  /\ \E n \in DOMAIN dict : StatusOf(dict[n]) = VStr(sFAILED)

\* the footer list was built
FooterBuilt == footer.exc = ""

\* the value is the default of the type: '' for str, -1 for int and ts, 0 for
\* float, '-' for date, None for bool
IsTypeDefault(mtype, v) ==
  CASE mtype = "str"           -> v = VStr(<<>>)
    [] mtype \in {"int", "ts"} -> IsNumber(v) /\ v.n = 0 - 1
    [] mtype = "float"         -> IsNumber(v) /\ v.n = 0
    [] mtype = "date"          -> v = VStr(<<"-">>)
    [] mtype = "bool"          -> v = VNone
    [] OTHER                   -> FALSE

HasDefaultCoordinate(c) == \E k \in DOMAIN c : IsTypeDefault(metrics[k], c[k])

\* C11: no combination of the list valid_combinations that gen_footer_conf
\* builds has a coordinate equal to the default of the type of its metric
C11_NoDefaultCoordinate ==
  FooterBuilt => \A i \in 1..Len(footer.v) : ~HasDefaultCoordinate(footer.v[i])

\* a float trace took the default 0 in a row, and the list is not empty
C11_DefaultObservedAndPruned ==
  /\ FooterBuilt
  /\ Len(footer.v) > 0
  /\ "size" \in DOMAIN graphparameters
  /\ VFloat(0) \in graphparameters["size"]
  /\ \E i \in 1..Len(raw) : raw[i]["size"] = VFloat(0)

\* the combinations of the product of the observed values
Product == {c \in [DOMAIN graphparameters -> UNION Range(graphparameters)] :
              \A k \in DOMAIN graphparameters : c[k] \in graphparameters[k]}

\* a record of raw holds every key/value pair of the combination
Witnessed(c) ==
  \E i \in 1..Len(raw) : \A k \in DOMAIN c : k \in DOMAIN raw[i] /\ raw[i][k] = c[k]

\* C12: a combination of the product of the observed values is in the list
\* valid_combinations if and only if no coordinate is the default of its type
\* and one record of raw holds all its key/value pairs
C12_ValidIffWitnessed ==
  (FooterBuilt /\ DOMAIN graphparameters # {}) =>
    \A c \in Product : (c \in Range(footer.v)) <=> (~HasDefaultCoordinate(c) /\ Witnessed(c))

\* the values of name and size of two files: a combination of a name of one
\* file and a size of the other is in no record and not in the list
C12_ValuesOfDifferentFiles ==
  /\ FooterBuilt
  /\ Len(files) = 2
  /\ Len(footer.v) = 2
  /\ \E c \in Product :
       /\ ~HasDefaultCoordinate(c)
       /\ ~Witnessed(c)
       /\ \A k \in DOMAIN c : \E i \in 1..Len(raw) : raw[i][k] = c[k]
       /\ c \notin Range(footer.v)

\* a value as the identifier shows it: a whole float without its fraction,
\* any other value as str() gives it
Rendered(v) == IF v.t = "float" THEN IntToStr(v.n) ELSE pystr(v)

RECURSIVE Underscored(_, _)
Underscored(parts, n) ==
  IF n = 0 THEN <<>>
  ELSE IF n = 1 THEN parts[1]
  ELSE Underscored(parts, n - 1) \o <<"_">> \o parts[n]

TableValue(rec, i) == IF config.table[i] \in DOMAIN rec THEN rec[config.table[i]] ELSE VNone

ExpectedId(rec) ==
  Underscored([i \in 1..Len(config.table) |-> Rendered(TableValue(rec, i))], Len(config.table))

SameValue(a, b) == a = b \/ (IsNumber(a) /\ IsNumber(b) /\ a.n = b.n)

\* C13: the id of every emitted record is the underscore-join of the values
\* of the table parameters in table order, a float shown without trailing
\* zeros and point (12.000000 as "12", like the integer 12), and two records
\* with equal parameter values have equal ids
C13_IdOfTableParameters ==
  /\ \A n \in DOMAIN dict : dict[n]["id"] = VStr(ExpectedId(dict[n]))
  /\ \A n \in DOMAIN dict : \A m \in DOMAIN dict :
       (\A i \in 1..Len(config.table) : SameValue(TableValue(dict[n], i), TableValue(dict[m], i)))
         => dict[n]["id"] = dict[m]["id"]

\* a record with the integer 12 and the float 12.0: its id is "12_12"
C13_FloatAndIntegerTwelve ==
  \E n \in DOMAIN dict :
    /\ config.table = <<"value", "size">>
    /\ dict[n]["value"] = VInt(12)
    /\ dict[n]["size"] = VFloat(12)
    /\ dict[n]["id"] = VStr(<<"1", "2", "_", "1", "2">>)

\* apply_pattern was called and returned for the container
Filtered(kind) == returned.fn = "apply_pattern" /\ returned[kind].exc = ""

\* the unit matches the rule, as the container has it checked
Matches(kind, rule, q, i) ==
  /\ rule_given(rule)
  /\ IF kind = "set" THEN search_patterns(rule, q[i])
     ELSE check_unit(IF kind = "list" THEN VInt(i - 1) ELSE VStr(q[i]), UnitRecord(q[i]), rule).v

ToKeep(kind, q, i) ==
  /\ ~Matches(kind, call.exclude, q, i)
  /\ (~rule_given(call.include) \/ Matches(kind, call.include, q, i))

RECURSIVE KeptInOrder(_, _)
KeptInOrder(q, i) ==
  IF i = 0 THEN <<>>
  ELSE IF ToKeep("list", q, i) THEN Append(KeptInOrder(q, i - 1), UnitRecord(q[i]))
  ELSE KeptInOrder(q, i - 1)

\* C14: apply_pattern keeps an item if and only if it does not match the
\* exclude rules and there are no include rules or it matches an include
\* rule; the records of a list that are kept stay in their order
C14_KeptIffNotExcludedAndIncluded ==
  /\ Filtered("set") =>
       returned.set.v = {call.units[i] : i \in {j \in 1..Len(call.units) : ToKeep("set", call.units, j)}}
  /\ Filtered("list") => returned.list.v = KeptInOrder(call.units, Len(call.units))
  /\ Filtered("dict") =>
       /\ DOMAIN returned.dict.v =
            {call.units[i] : i \in {j \in 1..Len(call.units) : ToKeep("dict", call.units, j)}}
       /\ \A n \in DOMAIN returned.dict.v : returned.dict.v[n] = UnitRecord(n)

\* a list c, b, a with exclude and include rules: b is removed, c and a stay
\* in their order
C14_TwoKeptInOrder ==
  /\ Filtered("list")
  /\ call.units = <<(<<"c">>), (<<"b">>), (<<"a">>)>>
  /\ rule_given(call.exclude)
  /\ rule_given(call.include)
  /\ returned.list.v = <<UnitRecord(<<"c">>), UnitRecord(<<"a">>)>>

\* the names of the units that are left in the container
KeptNames(kind) ==
  CASE kind = "set"  -> returned.set.v
    [] kind = "list" -> {returned.list.v[i]["name"].s : i \in 1..Len(returned.list.v)}
    [] kind = "dict" -> DOMAIN returned.dict.v

\* C15: for every shape of the rules and the same items, apply_pattern makes
\* the same decision for an item in a set of names, in a list of records and
\* in a mapping of name -> record
C15_ContainerIndependent ==
  returned.fn = "apply_pattern" =>
    /\ Filtered("set") /\ Filtered("list") /\ Filtered("dict")
    /\ KeptNames("set") = KeptNames("list")
    /\ KeptNames("list") = KeptNames("dict")

Added == returned.fn = "__add__"

\* the deep merge of two values as C16 gives it
RECURSIVE DeepMerged(_, _)
DeepMerged(x, y) ==
  CASE x.kind = "dict" /\ y.kind = "dict" ->
         DDict([k \in DOMAIN x.m \cup DOMAIN y.m |->
                  IF k \in DOMAIN x.m /\ k \in DOMAIN y.m THEN DeepMerged(x.m[k], y.m[k])
                  ELSE IF k \in DOMAIN x.m THEN x.m[k] ELSE y.m[k]])
    [] x.kind = "list" /\ y.kind = "list" -> DList(x.l \o y.l)
    [] x.kind = "set" /\ y.kind = "set"   -> DSet(x.s \cup y.s)
    [] OTHER                              -> y

DataMerged == DDict(returned.v.new.data) = DeepMerged(DDict(call.a.data), DDict(call.b.data))

OperandsUnchanged == returned.v.self = call.a /\ returned.v.other = call.b

\* C16 as stated: a + b returns a new unit whose data is the deep merge of the
\* data of a and b and whose records are those of a and of b; a and b are
\* not changed
C16_RecordsOfBoth ==
  Added =>
    /\ DataMerged
    /\ OperandsUnchanged
    /\ Range(returned.v.new.dict) = Range(call.a.dict) \cup Range(call.b.dict)

\* C16: a + b returns a new unit whose data is the deep merge of the data of
\* a and b (mappings key by key, lists concatenated with those of a first,
\* sets united, any other value from b); its records are those of a and of b
\* under their keys, and under a key of both the record of a updated field by
\* field with the record of b; a and b are not changed
C16_DeepMergeOfDataAndRecords ==
  Added =>
    /\ DataMerged
    /\ OperandsUnchanged
    /\ DOMAIN returned.v.new.dict = DOMAIN call.a.dict \cup DOMAIN call.b.dict
    /\ \A k \in DOMAIN returned.v.new.dict :
         returned.v.new.dict[k] =
           IF k \notin DOMAIN call.b.dict THEN call.a.dict[k]
           ELSE IF k \notin DOMAIN call.a.dict THEN call.b.dict[k]
           ELSE [f \in DOMAIN call.a.dict[k] \cup DOMAIN call.b.dict[k] |->
                   IF f \in DOMAIN call.b.dict[k] THEN call.b.dict[k][f] ELSE call.a.dict[k][f]]

\* two units of the same name with a list, a set and a value each, and a
\* record under the same key with different fields
C16_SameNameAndKey ==
  /\ Added
  /\ call.a.data = UnitData("x", 1, pathA)
  /\ call.b.data = UnitData("x", 2, pathB)
  /\ returned.v.new.data["x"].m["raw"].l = <<RawRow(1), RawRow(2)>>
  /\ returned.v.new.data["x"].m["sources"].s = {pathA, pathB}
  /\ returned.v.new.data["x"].m["lastrun"].v = VInt(2)
  /\ "x_0" \in DOMAIN call.a.dict
  /\ "x_0" \in DOMAIN call.b.dict
  /\ DOMAIN returned.v.new.dict["x_0"] = {"ts", "id", "node"}

\* C17: whatever the source files hold (values that cannot be parsed, a row
\* without an input field of a formula, a division by zero in a formula, a
\* file whose rows are all skipped or all removed by the rules), no exception
\* leaves get_metrics
C17_NoExceptionLeavesGetMetrics == pc # "raised"

Flattened == returned.fn = "flatten_json"

\* every job of the document has its array of results
EveryJobHasResults(doc) == \A j \in 1..Len(doc.jobs) : "results" \in DOMAIN doc.jobs[j]

\* the number of results of the jobs before job j
RECURSIVE ResultsBefore(_, _)
ResultsBefore(doc, j) ==
  IF j = 1 THEN 0 ELSE ResultsBefore(doc, j - 1) + Len(doc.jobs[j - 1]["results"])

\* the flat map of one result: the value of the result, else of the job, else
\* of the pipeline, without the array of results of the job
FlatMap(doc, j, res) ==
  [k \in DOMAIN res \cup ((DOMAIN doc.jobs[j] \cup DOMAIN doc.pipeline) \ {"results"}) |->
     IF k \in DOMAIN res THEN res[k]
     ELSE IF k \in DOMAIN doc.jobs[j] THEN doc.jobs[j][k]
     ELSE doc.pipeline[k]]

\* C18: flatten_json gives one flat map per (job, result), in the order of the
\* jobs and then of the results; a field has the value of the result, else of
\* the job, else of the pipeline; the array of results of the job is no field
\* of the output; the document is not modified
C18_OneMapPerJobAndResult ==
  (Flattened /\ EveryJobHasResults(call.json_data)) =>
    /\ returned.v.ret.exc = ""
    /\ Len(returned.v.ret.v) = ResultsBefore(call.json_data, Len(call.json_data.jobs) + 1)
    /\ \A j \in 1..Len(call.json_data.jobs) :
         \A r \in 1..Len(call.json_data.jobs[j]["results"]) :
           returned.v.ret.v[ResultsBefore(call.json_data, j) + r]
             = FlatMap(call.json_data, j, call.json_data.jobs[j]["results"][r])
    /\ returned.v.json_data = call.json_data

\* two jobs with results, a field in the pipeline, the job and the result:
\* the second job's result gives the last map, with the result's value
C18_ThreeLevelsTwoJobs ==
  /\ Flattened
  /\ Len(call.json_data.jobs) = 2
  /\ EveryJobHasResults(call.json_data)
  /\ "node" \in DOMAIN call.json_data.pipeline
  /\ "node" \in DOMAIN call.json_data.jobs[2]
  /\ Len(call.json_data.jobs[1]["results"]) = 2
  /\ Len(call.json_data.jobs[2]["results"]) = 1
  /\ "node" \in DOMAIN call.json_data.jobs[2]["results"][1]
  /\ Len(returned.v.ret.v) = 3
  /\ returned.v.ret.v[3]["node"] = T("r")
  /\ returned.v.ret.v[3]["commit"] = T("p")
  /\ "node" \notin DOMAIN call.json_data.jobs[1]["results"][1]
  /\ "node" \in DOMAIN call.json_data.jobs[1]
  /\ returned.v.ret.v[1]["node"] = T("j")

\* the used metrics of type bool
BoolMetrics == {m \in used_metrics(config) \cap DOMAIN config.metrics : config.metrics[m].type = "bool"}

\* a text is false if it is "false", "0" or "" whatever the case of its letters
CastOfText(text) == VBool(lower(text) \notin {sfalse, <<"0">>, <<>>})

\* C19: a metric of type bool read from the content of a file is false for
\* the texts "false", "0" and "" in any case of the letters, and true for
\* every other text
C19_BoolCastOfContent ==
  (ReadInOrder /\ BoolMetrics # {}) =>
    \A i \in 1..Len(last.valid) : \A m \in BoolMetrics :
      (FromContent(config.metrics[m]) /\ m \in DOMAIN LastFile.rows[i]
         /\ LastFile.rows[i][m].t = "str")
        => last.valid[i][m] = CastOfText(LastFile.rows[i][m].s)

\* the derived metric of the row cannot be evaluated: an input is blank or no
\* number, or the divisor is 0
Unevaluable(row) ==
  /\ config = CfgDerived
  /\ (row["value"] \in {TEmpty, T("x")} \/ row["bw"] = T("0"))

\* the timestamp of the row cannot be parsed
MalformedTs(row) == row["ts"] = T("x")

NoBlankTs(file) == \A i \in 1..Len(file.rows) : file.rows[i]["ts"] # TEmpty

\* C20: a row whose derived expression cannot be evaluated or whose timestamp
\* cannot be parsed is kept, the value is the default of the type of the
\* metric, and its _status is FAILED when the type is not str
C20_RecordLevelErrors ==
  (last.outcome # "none" /\ NoBlankTs(LastFile)) =>
    \A i \in 1..Len(LastFile.rows) :
      (Unevaluable(LastFile.rows[i]) \/ MalformedTs(LastFile.rows[i])) =>
        /\ last.outcome = "ok"
        /\ Len(last.valid) = Len(LastFile.rows)
        /\ StatusOf(last.valid[i]) = VStr(sFAILED)
        /\ Unevaluable(LastFile.rows[i]) => IsTypeDefault("float", last.valid[i]["ratio"])
        /\ MalformedTs(LastFile.rows[i]) => IsTypeDefault("ts", last.valid[i]["ts"])

\* the three reasons to skip a file: an extension that is neither .csv nor
\* .json, no data row, a first row without a required content header
SkippedSource(file) ==
  \/ ~IsCsv(file) /\ ~IsJson(file)
  \/ /\ read_source(file).exc = ""
     /\ \/ Len(read_source(file).v) = 0
        \/ DOMAIN headers(config) \ DOMAIN read_source(file).v[1] # {}

TsNowhere(file) ==
  /\ IsCsv(file) /\ Len(file.rows) > 0
  /\ DOMAIN headers(config) \subseteq DOMAIN file.rows[1]
  /\ "ts" \notin Range(headers(config)) \cup DOMAIN calc_headers(config)
  /\ "ts" \notin DOMAIN common_data(config, locals, file, metrics).data

UnresolvedMetrics(cfg, file) ==
  {m \in used_metrics(cfg) :
     \/ FromStatic(cfg.metrics[m]) /\ ~cfg.metrics[m].hasvalue
     \/ /\ ~FromStatic(cfg.metrics[m]) /\ FromFilename(cfg.metrics[m])
        /\ DOMAIN cfg.metrics[m].regex # {}
        /\ ~re_search(cfg.metrics[m].regex, file.path)
     \/ /\ cfg.metrics[m].from = <<"metadata">>
        /\ key_to_find(cfg.metrics[m], m) \notin DOMAIN file.meta}

\* the file of the last iteration was read, with rows and every header
ReadWithRows ==
  /\ last.outcome \notin {"none", "skipped"}
  /\ IsCsv(LastFile) /\ Len(LastFile.rows) > 0
  /\ DOMAIN headers(config) \subseteq DOMAIN LastFile.rows[1]

\* C23: a file that leaves a non-content metric unresolved is processed to
\* the end without that metric in its rows, and the loop goes on
C23_UnresolvedMetricLeftOut ==
  (ReadWithRows /\ UnresolvedMetrics(config, LastFile) # {})
    => /\ last.outcome = "ok"
       /\ \A i \in 1..Len(last.valid) :
            DOMAIN last.valid[i] \cap UnresolvedMetrics(config, LastFile) = {}

\* the table parameters 'sys' and 'node' are unresolved and the file is
\* processed to the end, its record emitted without them
C23_UnresolvedTableParameter ==
  /\ ReadWithRows /\ config = CfgCommon /\ last.outcome = "ok"
  /\ UnresolvedMetrics(config, LastFile) = {"sys", "node"}
  /\ Len(last.kept) > 0 /\ "sys" \notin DOMAIN last.kept[1]

\* the trace dimension 'node' is unresolved and get_metrics ends in KeyError
C23_UnresolvedTraceRaises ==
  /\ ReadWithRows /\ config = CfgNodeTrace
  /\ "node" \in UnresolvedMetrics(config, LastFile)
  /\ pc = "raised" /\ exc = "KeyError"

\* a plot x, y or trace metric of the row is empty
EmptyPlotMetric(row, plots) ==
  \E m \in plots \cap DOMAIN row : is_empty(row[m])

\* a used metric of the row that is no plot metric and not of type str is empty
EmptyTypedMetric(row, mtypes, others) ==
  \E m \in others \cap DOMAIN row :
    type_get(mtypes, m) # "str" /\ is_empty(row[m])

PresetFailed(row) == "_status" \in DOMAIN row /\ row["_status"] = VStr(sFAILED)

\* some cause of the status FAILED holds for the row
FailedCause(row, mtypes, plots, others) ==
  \/ PresetFailed(row)
  \/ EmptyPlotMetric(row, plots)
  \/ EmptyTypedMetric(row, mtypes, others)

\* the rule of the status for one row as it was merged and as it was
\* validated; plots are the plot metrics, others the used metrics that are
\* no plot metrics
StatusRuleOf(merged, valid, mtypes, plots, others) ==
  /\ StatusOf(valid) = VStr(sFAILED) <=> FailedCause(merged, mtypes, plots, others)
  /\ \A m \in others \cap DOMAIN merged :
       (m # "_status" /\ type_get(mtypes, m) = "str" /\ is_empty(merged[m]))
         => valid[m] = VStr(<<>>)
  /\ ("_status" \in DOMAIN merged /\ StatusOf(valid) = VStr(sSUCCESSFUL))
       => merged["_status"] = VStr(sSUCCESSFUL)
  /\ ~FailedCause(merged, mtypes, plots, others)
       => StatusOf(valid) = run_status(merged)

StatusRuleOfStep(step, plots, others) ==
  \A i \in 1..Len(step.valid) :
    StatusRuleOf(step.merged[i], step.valid[i], step.mtypes, plots, others)

\* C24: the status of a validated row is FAILED exactly when the row came
\* with the status FAILED, or a plot metric of the row is empty, or a
\* non-plot used metric of a type other than str is empty; an empty non-plot
\* text becomes '' and a row that came with a status is SUCCESSFUL only if
\* that status was SUCCESSFUL
C24_StatusRule ==
  Len(last.valid) > 0 =>
    StatusRuleOfStep(last, plot_metrics(config),
                     used_metrics(config) \ plot_metrics(config))

\* a row with an empty note keeps the preset status PASSED and the note '',
\* as the row next to it whose note is not empty
C24_EmptyTextKeepsPreset ==
  /\ config = CfgNote /\ last.outcome = "ok"
  /\ \E i \in 1..Len(last.valid) :
       /\ is_empty(last.merged[i]["note"])
       /\ last.valid[i]["note"] = VStr(<<>>)
       /\ StatusOf(last.valid[i]) = VStr(sPASSED)
  /\ \E i \in 1..Len(last.valid) :
       /\ last.merged[i]["note"] = T("x")
       /\ StatusOf(last.valid[i]) = VStr(sPASSED)

\* the list is in ascending order of the sorted items of its combinations
Ascending(list, keys) ==
  \A i \in 1..Len(list) : \A j \in (i + 1)..Len(list) :
    items_order(keys, list[i], list[j], 1) = "lt"

\* C25: gen_footer_conf builds the list of valid combinations without an
\* error, and the list is in ascending order of the sorted (key, value)
\* pairs of its combinations
C25_FooterBuiltAndSorted ==
  footer # NoFooter =>
    /\ footer.exc = ""
    /\ Ascending(footer.v, sorted_keys(DOMAIN graphparameters))

\* rows with the names 'a' and '' (the null marker after validation) leave
\* two valid combinations that sorted() cannot compare
C25_NullAndTextOnAxis ==
  /\ footer.exc = "TypeError"
  /\ graphparameters["name"] = {VNone, T("a")}

\* the records of _dict in the order of the counter
RecordsInOrder == [i \in 1..counter |-> dict[i - 1]]

\* get_metrics as one call leaves what the iterations of the loop leave
GetMetricsAsOneCall ==
  pc \in {"done", "failed", "raised"} =>
    /\ get_metrics(config, files, stored).result = pc
    /\ get_metrics(config, files, stored).lastts = lastts
    /\ pc # "failed" =>
         /\ get_metrics(config, files, stored).records = RecordsInOrder
         /\ get_metrics(config, files, stored).raw = raw
         /\ get_metrics(config, files, stored).exc = exc
    /\ pc = "done" =>
         /\ get_metrics(config, files, stored).graphparameters = graphparameters
         /\ get_metrics(config, files, stored).metrics = metrics

\* main has ended, by its last line or by an exception
MainOver == main_pc \in {"end", "raised"}

\* the watermark the ts file held for the unit when main started
StoredAtStart(key) == lastts_of(tsfile.lastts, key)

\* C26: every unit is given the watermark the ts file held for it, the map
\* of main holds the new watermark of a unit whose update and get_metrics
\* succeeded and the old one of every other unit, every unit of the
\* configuration is visited, and the map is written to the ts file once,
\* when main ends
C26_WatermarksPersist ==
  /\ main_pc = "units" =>
       \A i \in 1..Len(benches) :
         /\ benches[i].from = StoredAtStart(benches[i].key)
         /\ lastts_of(main_lastts, benches[i].key) =
              IF benches[i].result = "done" THEN benches[i].lastts
                                            ELSE StoredAtStart(benches[i].key)
  /\ main_pc \in {"start", "units"} => tsfile.written = 0
  /\ MainOver =>
       /\ Len(benches) = Len(units)
       /\ tsfile.written = 1
       /\ tsfile.lastts = main_lastts

\* the first unit emitted a record and has a new watermark, the second ends
\* get_metrics with an exception: main is over and no ts file is written
C26_WatermarkOfFirstUnitLost ==
  /\ main_pc = "raised" /\ Len(units) = 2 /\ Len(benches) = 2
  /\ benches[1].result = "done" /\ benches[1].entries > 0
  /\ benches[1].lastts > benches[1].from
  /\ benches[2].result = "raised"
  /\ tsfile.written = 0

\* a unit failed (get_metrics returned False), the next was processed, and
\* the ts file holds the old watermark of the first and the new of the second
C26_FailedUnitKeepsWatermark ==
  /\ main_pc = "end" /\ Len(benches) = 2
  /\ benches[1].result = "failed" /\ benches[1].from = 1
  /\ benches[2].result = "done" /\ benches[2].lastts > 1
  /\ tsfile.written = 1
  /\ tsfile.lastts[benches[1].key] = 1
  /\ tsfile.lastts[benches[2].key] = benches[2].lastts

\* the number of records of the units that were accumulated into unique
RECURSIVE Accumulated(_)
Accumulated(bs) ==
  IF Len(bs) = 0 THEN 0
  ELSE (IF Head(bs).result = "done" THEN Head(bs).entries ELSE 0) + Accumulated(Tail(bs))

\* C27: the records of a unit are stored under as many keys as rows passed
\* the watermark filter, and unique, the sum of units of different name and
\* tab, has as many entries as the units it accumulated have together
C27_NoRecordOverwritten ==
  /\ \A i \in 1..Len(benches) : benches[i].keys = benches[i].entries
  /\ (singleLML /\ main_pc # "start")
       => Cardinality(DOMAIN unique.dict) = Accumulated(benches)

\* the unit 'a_b' and the tab 'b' of the unit 'a' both store a record under
\* 'a_b_0': unique holds one entry for the two records
C27_KeysOfTwoUnitsCollide ==
  /\ singleLML /\ Len(benches) = 2
  /\ benches[1].result = "done" /\ benches[1].entries = 1
  /\ benches[2].result = "done" /\ benches[2].entries = 1
  /\ {units[1].name, units[2].name} = {<<"a", "_", "b">>, <<"a">>}
  /\ DOMAIN unique.dict = {<<"a", "_", "b", "_", "0">>}

\* two units whose names share no prefix: unique holds every record
C27_KeysOfTwoUnitsApart ==
  /\ singleLML /\ Len(benches) = 2
  /\ benches[1].result = "done" /\ benches[1].entries = 2
  /\ benches[2].result = "done" /\ benches[2].entries = 1
  /\ Cardinality(DOMAIN unique.dict) = 3

\* the multiset of the elements of a list
BagOf(list) ==
  [x \in {list[i] : i \in 1..Len(list)} |-> Cardinality({i \in 1..Len(list) : list[i] = x})]

\* two runs of get_metrics left the same unit, up to the order of the
\* records and of raw
SameUnit(a, b) ==
  /\ a.result = b.result
  /\ BagOf(a.records) = BagOf(b.records)
  /\ BagOf(a.raw) = BagOf(b.raw)
  /\ a.graphparameters = b.graphparameters
  /\ a.lastts = b.lastts

\* C28: when get_metrics returns True for one order of the sources, it
\* returns True for every order, with the same multiset of emitted records,
\* the same multiset of raw, the same axis values and the same watermark
C28_FileOrderIndependent ==
  returned.fn = "get_metrics" =>
    \A p \in DOMAIN returned.v : \A q \in DOMAIN returned.v :
      returned.v[p].result = "done" => SameUnit(returned.v[p], returned.v[q])

\* two files with a row each, later than the watermark: both orders emit
\* the same two records, in a different order
C28_TwoOrdersOfTwoFiles ==
  /\ returned.fn = "get_metrics"
  /\ Len(call.sources) = 2 /\ call.lastts > 0
  /\ \A p \in DOMAIN returned.v :
       /\ returned.v[p].result = "done"
       /\ Len(returned.v[p].records) = 2 /\ Len(returned.v[p].raw) = 2
       /\ returned.v[p].lastts > call.lastts
  /\ \E p \in DOMAIN returned.v : \E q \in DOMAIN returned.v :
       returned.v[p].records # returned.v[q].records

\* C29: no combination of the list of valid combinations has the null
\* marker as a coordinate
C29_NoNullCoordinate ==
  footer.exc = "" =>
    \A i \in 1..Len(footer.v) : \A k \in DOMAIN footer.v[i] : footer.v[i][k] # VNone

\* every row has an empty name: the only valid combination is name = None
C29_NullIsTheOnlyTrace ==
  /\ footer.exc = "" /\ Len(footer.v) = 1
  /\ DOMAIN footer.v[1] = {"name"}
  /\ metrics["name"] = "str" /\ footer.v[1]["name"] = VNone
  /\ \A i \in 1..Len(files) : \A j \in 1..Len(files[i].rows) : files[i].rows[j]["name"] = TEmpty

\* the rows of the list whose timestamp is later than wm, in their order
LaterThan(rows, wm) == SelectRows(rows, [i \in 1..Len(rows) |-> rows[i]["ts"].n > wm])

\* C30: while get_metrics runs the watermark of the unit is the one the run
\* started with; the rows a file emits are those later than that watermark
\* (all of them when it is 0), whatever timestamps the files before held
C30_OneWatermarkPerRun ==
  /\ pc \in {"start", "loop", "failed", "raised"} => lastts = stored
  /\ pc = "done" => lastts = lastts_temp
  /\ last.outcome = "ok" =>
       /\ \A i \in 1..Len(last.valid) :
            last.valid[i]["ts"].n > stored => last.valid[i] \in Range(last.kept)
       /\ stored > 0 => last.kept = LaterThan(last.valid, stored)
       /\ stored = 0 => last.kept = last.valid

\* the first file held a row of ts 3; the second file has a row of ts 2,
\* later than the watermark 1 of the run, and the row is emitted
C30_LaterFileEarlierRow ==
  /\ pc = "loop" /\ pos = 3 /\ stored = 1 /\ lastts = 1
  /\ last.outcome = "ok"
  /\ \E i \in 1..Len(files[1].rows) : files[1].rows[i]["ts"] = T("3")
  /\ \E i \in 1..Len(last.kept) : last.kept[i]["ts"].n = 2
  /\ \E n \in DOMAIN dict : dict[n]["ts"].n = 2

====
